---- MODULE Spec2Model ----
(***************************************************************************)
(* A model of the Ijoka attribution and tracking engine: the graph store   *)
(* (Feature, Session, Event, StatusEvent nodes and LINKED_TO edges), the   *)
(* feature operations of graph_db_helper.py and of IjokaClient (db.py),    *)
(* and the hook handlers of track-event.py and session-start.py.           *)
(*                                                                         *)
(* One Project is modelled.  Feature ids are the positions 1..Len(features)*)
(* in creation order (the code draws a fresh uuid per Feature and orders   *)
(* by created_at).  Time is a clock of ticks of TickMinutes minutes.       *)
(* Session ids are integers: the hook sessions SessionIds, and             *)
(* CliSession(t) for the id "cli-<timestamp>" IjokaClient makes up.        *)
(***************************************************************************)
EXTENDS Integers, Sequences, FiniteSets, TLC

\* ------------------------------------------------------------------ bounds
\* the claim arbiter (Spec, SpecApi)
MaxClaimFeatures == 1
MaxStops == 1
MaxTicks == 2
\* the ingestion pipeline (SpecIngest)
MaxFeatures == 2
MaxDeliveries == 3
MaxIngestTicks == 1
\* the interleaved calls (SpecConc, SpecEvents)
MaxCalls == 4
MaxEventCalls == 3
\* granularity of the clock, in minutes
TickMinutes == 20
MaxDiscoverDeliveries == 3
MaxPlanCalls == 4
MaxHierarchyFeatures == 4
MaxBlockingFeatures == 2
MaxAutoDeliveries == 3
MaxHookCalls == 2
MaxDriftCalls == 3
MaxCriteriaDeliveries == 3
MaxAppendDeliveries == 3
MaxEndDeliveries == 2
MaxProjectDeliveries == 3
MaxDiagnosticDeliveries == 3

\* ------------------------------------------------------- program constants
\* is_session_active(session_id, stale_minutes = 30)
StaleMinutes == 30
\* discover_feature(..., priority = 50)
DefaultPriority == 50
\* priority of the Session Work feature
SessionWorkPriority == -1
\* classify_prompt_to_feature: activate when confidence >= 40
ConfidenceThreshold == 40
\* maybe_auto_complete: criteria.get("count", 3)
DefaultWorkCountThreshold == 3
\* reattribute_session_work_events(..., lookback_minutes = 60)
LookbackMinutes == 60
max_retries == 3
BackoffBaseMs == 100

Null == "null"
NoSession == 0
NoTime == -1
NoFeature == 0

SessionIds == {1, 2}
CliBase == 100
CliSession(t) == CliBase + t
\* who calls start_feature: a hook session with its agent, or with the agent
\* left at its default (None)
Callers == {[sid |-> 1, agent |-> "A1"], [sid |-> 2, agent |-> "A2"],
            [sid |-> 2, agent |-> Null]}
ApiAgent == "api"

SESSION_WORK_DESCRIPTION == "Session Work - Project management and meta activities"
\* the Features a user creates: description and priority
FeatureInputs == {[description |-> "parser", priority |-> DefaultPriority],
                  [description |-> "tests", priority |-> 0]}

\* the words extract by re.findall(r'\b[a-zA-Z][a-zA-Z0-9_]{2,}\b') from a
\* Feature's description and steps, less the stop words (representatives)
FeatureKeywords(description) ==
    IF description = SESSION_WORK_DESCRIPTION THEN {"session", "work", "meta"}
    ELSE {description}

Prompts == {"parser", "meta", "colours"}
PromptKeywords(prompt) == {prompt}

WorkToolNames == {"Edit", "Write", "Read", "Bash", "Grep", "Glob", "Task",
                  "TodoWrite", "TodoRead", "WebSearch", "WebFetch", "NotebookEdit"}
MetaTool == "mcp__ijoka__status"
\* the tool calls delivered: a tool with what its input mentions (nothing
\* special, a hook script or log, or the tracking script itself)
ToolCalls == {[tool_name |-> "Edit", input |-> "plain"],
              [tool_name |-> "Edit", input |-> "track-event.py"],
              [tool_name |-> "Read", input |-> "plain"],
              [tool_name |-> "Read", input |-> "hook"],
              [tool_name |-> MetaTool, input |-> "plain"]}
ToolUseIds == {"t1", "t2"}
\* the working directories a hook is delivered with: the root of the
\* repository, where the Features of the model live, and a directory below it
GitRoot == "/repo"
Cwds == {"/repo", "/repo/src"}
\* tool calls by their tool_use_id: a Read of the hook log, an Edit, a Read of
\* the tracking script in the hooks directory, a tool of the ijoka server, a test run
ToolCallOf == [t1 |-> [tool_name |-> "Read", input |-> "hook"],
               t2 |-> [tool_name |-> "Edit", input |-> "plain"],
               t3 |-> [tool_name |-> "Read", input |-> "hooks/scripts/track-event.py"],
               t4 |-> [tool_name |-> MetaTool, input |-> "plain"],
               t5 |-> [tool_name |-> "Bash", input |-> "pytest"]]
\* the todos a TodoWrite carries, the plans set_plan is given, and the
\* step_completed texts of a checkpoint
Todo(content, status) == [content |-> content, status |-> status]
TodoLists == {<<Todo("parse input", "in_progress"), Todo("run tests", "pending")>>,
              <<Todo("parse input", "completed"), Todo("run tests", "in_progress")>>,
              <<Todo("lint", "pending"), Todo("parse input", "pending")>>,
              <<Todo("run tests", "completed")>>}
Plans == {<<"parse input", "run tests">>, <<"run tests">>}
StepCompletedInputs == {"parse", "tests", "deploy"}
\* the current_activity texts of a checkpoint
CurrentActivities == {"update UI colours", "parse the input", "fix tests", "to the"}

VARIABLES
    clock,          \* ticks since the start
    features,       \* sequence of Feature nodes; the id is the position
    sessions,       \* Session nodes by session id
    events,         \* Event nodes by event id
    linked,         \* LINKED_TO edges: <<event id, feature id>> -> multiplicity
    triggered,      \* TRIGGERED_BY edges: set of <<event id, session id>>
    status_events,  \* StatusEvent nodes, oldest first
    steps,          \* sequence of Step nodes; the id is the position
    child_of,       \* CHILD_OF edges: set of <<child feature id, parent feature id>>
    depends_on,     \* DEPENDS_ON {dependency_type: 'blocks'} edges: <<feature id, blocker id>>
    projects,       \* the paths of the Project nodes
    session_nodes,  \* Session nodes: the id, the paths of the Projects it is IN_PROJECT of, nudges_shown
    nuuid,          \* number of uuid4 event ids drawn so far
    deliveries,     \* number of hook deliveries and plan calls so far
    last,           \* the last operation, what it saw and what it returned
    calls           \* the in-flight start_feature / get_or_create calls by worker

vars == <<clock, features, sessions, events, linked, triggered, status_events,
          steps, child_of, depends_on, projects, session_nodes, nuuid, deliveries,
          last, calls>>

\* --------------------------------------------------------------- the store
Store == [features |-> features, sessions |-> sessions, events |-> events,
          linked |-> linked, triggered |-> triggered,
          status_events |-> status_events, steps |-> steps, child_of |-> child_of,
          depends_on |-> depends_on, projects |-> projects,
          session_nodes |-> session_nodes,
          nuuid |-> nuuid]

Commit(G) ==
    /\ features' = G.features
    /\ sessions' = G.sessions
    /\ events' = G.events
    /\ linked' = G.linked
    /\ triggered' = G.triggered
    /\ status_events' = G.status_events
    /\ steps' = G.steps
    /\ child_of' = G.child_of
    /\ depends_on' = G.depends_on
    /\ projects' = G.projects
    /\ session_nodes' = G.session_nodes
    /\ nuuid' = G.nuuid

\* a position whose Feature was archived keeps a deleted node: ids are never reused
FeatureIds(G) == {f \in 1..Len(G.features) : G.features[f].status # "deleted"}

NoSessionNode == [exists |-> FALSE, status |-> Null, last_activity |-> NoTime,
                  event_count |-> 0, active_feature_id |-> NoFeature]

Minutes(t) == t * TickMinutes


\* number of LINKED_TO edges into Feature f
RECURSIVE SumEdges(_, _)
SumEdges(L, D) ==
    IF D = {} THEN 0
    ELSE LET x == CHOOSE y \in D : TRUE IN L[x] + SumEdges(L, D \ {x})
EdgesInto(G, f) == SumEdges(G.linked, {x \in DOMAIN G.linked : x[2] = f})

\* ------------------------------------------------------ feature operations
NewFeature(description, status, priority, isSessionWork) ==
    [description |-> description, status |-> status, priority |-> priority,
     work_count |-> 0, is_session_work |-> isSessionWork, is_primary |-> FALSE,
     assigned_agent |-> Null, claiming_session_id |-> NoSession,
     claiming_agent |-> Null, claimed_at |-> NoTime,
     completionCriteria |-> "manual"]

\* graph_db_helper.create_feature: in_progress or pending, no StatusEvent
create_feature(G, description, priority, in_progress) ==
    [G EXCEPT !.features = Append(@, NewFeature(description,
        IF in_progress THEN "in_progress" ELSE "pending", priority, FALSE))]

\* a Feature node that carries the completionCriteria property which
\* maybe_auto_complete reads, active from the start
create_criteria_feature(G, description, priority, criteria) ==
    LET G1 == create_feature(G, description, priority, TRUE)
    IN [G1 EXCEPT !.features[Len(G1.features)] =
                     [@ EXCEPT !.completionCriteria = criteria]]

\* is_session_active: the Session node's last_activity, else a recent Event
is_session_active(G, sid, now) ==
    IF sid = NoSession THEN FALSE
    ELSE \/ /\ sid \in DOMAIN G.sessions
            /\ G.sessions[sid].exists
            /\ Minutes(G.sessions[sid].last_activity) > Minutes(now) - StaleMinutes
         \/ \E e \in DOMAIN G.events :
               /\ G.events[e].session_id = sid
               /\ Minutes(G.events[e].timestamp) > Minutes(now) - StaleMinutes

\* get_feature_claim: the holder's session id, NoSession when unclaimed
get_feature_claim(G, f) == G.features[f].claiming_session_id

\* start_feature's check of the claim it read: TRUE when the call must
\* return None (conflict)
ClaimConflictNoForce(existing, sid, active, force) ==
    existing # NoSession /\ existing # sid /\ active /\ force
ClaimConflictAnyHolder(existing, sid, active, force) ==
    existing # NoSession /\ existing # sid /\ ~force
ClaimConflict(existing, sid, active, force) ==
    existing # NoSession /\ existing # sid /\ active /\ ~force

\* start_feature's write
start_feature_write(G, f, agent, sid, now) ==
    [G EXCEPT !.features[f] = [@ EXCEPT !.status = "in_progress",
                                        !.assigned_agent = agent,
                                        !.claiming_session_id = sid,
                                        !.claiming_agent = agent,
                                        !.claimed_at = now]]

\* complete_feature
complete_feature(G, f) ==
    [G EXCEPT !.features[f] = [@ EXCEPT !.status = "complete",
                                        !.claiming_session_id = NoSession,
                                        !.claiming_agent = Null,
                                        !.claimed_at = NoTime]]

\* activate_feature
activate_feature(G, f) ==
    [G EXCEPT !.features[f] = [@ EXCEPT !.status = "in_progress"]]

\* increment_work_count
increment_work_count(G, f) ==
    [G EXCEPT !.features[f] = [@ EXCEPT !.work_count = @ + 1]]

\* create_status_event: appends the StatusEvent and sets the status
create_status_event(G, f, from, to, by) ==
    [G EXCEPT !.status_events = Append(@, [feature |-> f, from_status |-> from,
                                           to_status |-> to, by |-> by]),
              !.features[f] = [@ EXCEPT !.status = to]]

\* auto_transition_to_in_progress
auto_transition_to_in_progress(G, f, by) ==
    IF f \notin FeatureIds(G) THEN G
    ELSE IF G.features[f].status # "pending" THEN G
    ELSE IF G.features[f].is_session_work THEN G
    ELSE create_status_event(G, f, "pending", "in_progress", by)

\* ------------------------------------------------------- session operations
\* start_session: MERGE the Session node
start_session(G, sid, now) ==
    [G EXCEPT !.sessions[sid] =
        IF @.exists THEN [@ EXCEPT !.status = "active", !.last_activity = now]
        ELSE [NoSessionNode EXCEPT !.exists = TRUE, !.status = "active",
                                   !.last_activity = now]]

\* an end_session that gives up the claims of the Session as well
end_session_releasing(G, sid, now) ==
    IF G.sessions[sid].exists
    THEN [G EXCEPT !.sessions[sid] = [@ EXCEPT !.status = "ended",
                                                 !.last_activity = now],
                   !.features = [f \in DOMAIN @ |->
                                    IF @[f].claiming_session_id = sid
                                    THEN [@[f] EXCEPT !.claiming_session_id = NoSession,
                                                      !.claiming_agent = Null,
                                                      !.claimed_at = NoTime]
                                    ELSE @[f]]]
    ELSE G

\* end_session: MATCH (s:Session {id}) SET s.status = 'ended', s.ended_at,
\* s.last_activity = datetime()
end_session(G, sid, now) ==
    IF G.sessions[sid].exists
    THEN [G EXCEPT !.sessions[sid] = [@ EXCEPT !.status = "ended",
                                                 !.last_activity = now]]
    ELSE G

\* update_session_activity
update_session_activity(G, sid, now) ==
    IF G.sessions[sid].exists
    THEN [G EXCEPT !.sessions[sid].last_activity = now]
    ELSE G

\* set_session_state
set_session_state(G, sid, f) ==
    IF G.sessions[sid].exists
    THEN [G EXCEPT !.sessions[sid].active_feature_id = f]
    ELSE G

\* ---------------------------------------------------------- event operations
NoEvent == <<"none", "", 0>>
UuidEvent(n) == <<"uuid", "", n>>
ToolEvent(tool_use_id) == <<"tool", tool_use_id, 0>>
SessionEvent(kind, sid) == <<kind, "", sid>>
UserQueryEvent(sid, prompt) == <<"UserQuery", prompt, sid>>

AddEdge(L, x) == IF x \in DOMAIN L THEN [L EXCEPT ![x] = @ + 1] ELSE L @@ (x :> 1)

\* the LINKED_TO clause of insert_event: CREATE (e)-[:LINKED_TO]->(f)
LinkEvent(L, e, f) == AddEdge(L, <<e, f>>)

\* a write query whose MERGE of the Event sets the properties on a match too
insert_event_write_overwriting(G, e, event_type, sid, tool_name, payload, f, success, now) ==
    [G EXCEPT
       !.sessions[sid] =
           IF @.exists
           THEN [@ EXCEPT !.last_activity = now, !.event_count = @ + 1]
           ELSE [NoSessionNode EXCEPT !.exists = TRUE, !.status = "active",
                                      !.last_activity = now],
       !.events =
           [x \in DOMAIN @ \cup {e} |->
               IF x = e THEN [event_type |-> event_type,
                              tool_name |-> tool_name, payload |-> payload,
                              timestamp |-> now, session_id |-> sid,
                              success |-> success]
               ELSE @[x]],
       !.triggered = @ \cup {<<e, sid>>},
       !.linked = IF f # NoFeature THEN LinkEvent(@, e, f) ELSE @]

\* insert_event: the write query (Session, Event, TRIGGERED_BY, LINKED_TO)
insert_event_write(G, e, event_type, sid, tool_name, payload, f, success, now) ==
    [G EXCEPT
       !.sessions[sid] =
           IF @.exists
           THEN [@ EXCEPT !.last_activity = now, !.event_count = @ + 1]
           ELSE [NoSessionNode EXCEPT !.exists = TRUE, !.status = "active",
                                      !.last_activity = now],
       !.events =
           IF e \in DOMAIN @ THEN @
           ELSE @ @@ (e :> [event_type |-> event_type,
                            tool_name |-> tool_name, payload |-> payload,
                            timestamp |-> now, session_id |-> sid,
                            success |-> success]),
       !.triggered = @ \cup {<<e, sid>>},
       !.linked = IF f # NoFeature THEN LinkEvent(@, e, f) ELSE @]

\* insert_event with event_id given (a deterministic id)
insert_event_id(G, e, event_type, sid, tool_name, payload, f, success, now) ==
    LET G1 == insert_event_write(G, e, event_type, sid, tool_name, payload, f,
                                 success, now)
    IN IF f # NoFeature
       THEN auto_transition_to_in_progress(G1, f, <<"auto:first_activity", e>>)
       ELSE G1

\* insert_event with event_id = None: a fresh uuid4
insert_event_uuid(G, event_type, sid, tool_name, payload, f, success, now) ==
    insert_event_id([G EXCEPT !.nuuid = @ + 1], UuidEvent(G.nuuid + 1),
                    event_type, sid, tool_name, payload, f, success, now)

\* ------------------------------------------------------------- attribution
\* get_features: ORDER BY priority DESC, created_at ASC
RECURSIVE SortFeatures(_, _)
SortFeatures(G, S) ==
    IF S = {} THEN <<>>
    ELSE LET f == CHOOSE x \in S : \A y \in S :
                     \/ G.features[x].priority > G.features[y].priority
                     \/ /\ G.features[x].priority = G.features[y].priority
                        /\ x <= y
         IN <<f>> \o SortFeatures(G, S \ {f})
get_features(G) == SortFeatures(G, FeatureIds(G))

\* get_active_feature: the results the two LIMIT 1 queries can give
get_active_feature(G) ==
    LET prim == {f \in FeatureIds(G) : G.features[f].status = "in_progress"
                                       /\ G.features[f].is_primary}
        ip == {f \in FeatureIds(G) : G.features[f].status = "in_progress"}
    IN IF prim # {} THEN prim
       ELSE IF ip = {} THEN {NoFeature}
       ELSE {f \in ip : \A g \in ip : G.features[f].priority >= G.features[g].priority}

\* get_or_create_session_work_feature, the read: the Features of that description
SessionWorkByDescription(G) ==
    {f \in FeatureIds(G) : G.features[f].description = SESSION_WORK_DESCRIPTION}

\* get_or_create_session_work_feature, the write
create_session_work_feature(G) ==
    [G EXCEPT !.features = Append(@, NewFeature(SESSION_WORK_DESCRIPTION, "pending",
                                                SessionWorkPriority, TRUE))]

\* run_quick_diagnostics' query
SessionWorkByFlag(G) == {f \in FeatureIds(G) : G.features[f].is_session_work}

is_mcp_meta_tool(tool_name) == tool_name = MetaTool

\* is_diagnostic_command: "hook" in file_path, on the inputs delivered
is_diagnostic_command(tool_name, input) ==
    \/ is_mcp_meta_tool(tool_name)
    \/ tool_name = "Read" /\ input \in {"hook", "hooks/scripts/track-event.py"}

\* _activate_next_feature: the first Feature neither complete nor in_progress
RECURSIVE FirstInactive(_, _)
FirstInactive(G, order) ==
    IF order = <<>> THEN NoFeature
    ELSE IF G.features[Head(order)].status \notin {"complete", "in_progress"}
    THEN Head(order)
    ELSE FirstInactive(G, Tail(order))
activate_next_feature(G) ==
    LET f == FirstInactive(G, get_features(G))
    IN IF f = NoFeature THEN G ELSE activate_feature(G, f)

\* a check that takes criteria without a type for any_success
check_completion_criteria_default_any(criteria, tool_name, is_error) ==
    /\ ~is_error
    /\ criteria \in {"any_success", "manual", "absent"}
    /\ tool_name \in {"Edit", "Write", "Bash"}

\* check_completion_criteria, for the criteria types modelled: "absent" is a
\* Feature without the property, whose type defaults to manual
check_completion_criteria(criteria, tool_name, is_error) ==
    /\ ~is_error
    /\ criteria = "any_success"
    /\ tool_name \in {"Edit", "Write", "Bash"}

\* maybe_auto_complete: active is the Feature as read before the event was inserted
maybe_auto_complete(G, f, active, tool_name, is_error) ==
    IF f = NoFeature \/ active.status = "complete" THEN [G |-> G, completed |-> FALSE]
    ELSE LET counted == tool_name \in {"Edit", "Write", "Bash", "Task"} /\ ~is_error
             G1 == IF counted THEN increment_work_count(G, f) ELSE G
         IN IF /\ counted
               /\ active.completionCriteria = "work_count"
               /\ G1.features[f].work_count >= DefaultWorkCountThreshold
            THEN [G |-> activate_next_feature(complete_feature(G1, f)),
                  completed |-> TRUE]
            ELSE IF check_completion_criteria(active.completionCriteria, tool_name, is_error)
            THEN [G |-> activate_next_feature(complete_feature(G1, f)),
                  completed |-> TRUE]
            ELSE [G |-> G1, completed |-> FALSE]

\* handle_post_tool_use; sw and af are the results of the LIMIT 1 reads
handle_post_tool_use(G, sid, tool_name, input, tool_use_id, is_error, sw, af, now) ==
    IF input \in {"track-event.py", "hooks/scripts/track-event.py"} THEN G
    ELSE
    LET is_meta == is_mcp_meta_tool(tool_name)
        is_diag == is_diagnostic_command(tool_name, input)
        G0 == IF is_meta /\ sw = NoFeature THEN create_session_work_feature(G) ELSE G
        f == IF is_meta THEN (IF sw = NoFeature THEN Len(G0.features) ELSE sw)
             ELSE IF is_diag THEN NoFeature
             ELSE af
        \* the Feature dict the handler holds: passes is False for Session Work
        active == IF f = NoFeature THEN NewFeature("", "pending", 0, FALSE)
                  ELSE IF is_meta THEN [G0.features[f] EXCEPT !.status = "pending"]
                  ELSE G0.features[f]
        G1 == insert_event_id(G0, ToolEvent(tool_use_id), "ToolCall", sid, tool_name,
                              input, f, ~is_error, now)
        G2 == update_session_activity(G1, sid, now)
        R == maybe_auto_complete(G2, f, active, tool_name, is_error)
    IN IF R.completed
       THEN insert_event_uuid(R.G, "FeatureCompleted", sid, Null, tool_name, f, TRUE,
                              now)
       ELSE R.G

\* classify_prompt_to_feature: the score of a Feature, times 100 |prompt_keywords|
PromptScore(G, f, prompt) ==
    Cardinality(PromptKeywords(prompt) \cap FeatureKeywords(G.features[f].description))
    * (IF G.features[f].status # "complete" THEN 13 ELSE 10)
    * (IF G.features[f].status = "in_progress" THEN 12 ELSE 10)

RECURSIVE BestMatch(_, _, _, _, _)
BestMatch(G, order, prompt, best, bestScore) ==
    IF order = <<>> THEN [idx |-> best, score |-> bestScore]
    ELSE LET sc == PromptScore(G, Head(order), prompt)
         IN IF sc > bestScore
            THEN BestMatch(G, Tail(order), prompt, Head(order), sc)
            ELSE BestMatch(G, Tail(order), prompt, best, bestScore)

classify_prompt_to_feature(G, prompt) ==
    LET b == BestMatch(G, get_features(G), prompt, NoFeature, 0)
        n == Cardinality(PromptKeywords(prompt))
        c == b.score \div n
    IN [idx |-> b.idx, confidence |-> IF c > 100 THEN 100 ELSE c]

\* handle_user_prompt_submit; af is the result of get_active_feature
handle_user_prompt_submit(G, sid, prompt, af, now) ==
    LET m == classify_prompt_to_feature(G, prompt)
        switch == /\ FeatureIds(G) # {}
                  /\ af = NoFeature
                  /\ m.idx # NoFeature
                  /\ m.confidence >= ConfidenceThreshold
                  /\ af # m.idx
        f == IF switch THEN m.idx ELSE af
        G1 == IF switch THEN activate_feature(G, m.idx) ELSE G
        G2 == IF FeatureIds(G) # {} THEN set_session_state(G1, sid, f) ELSE G1
    IN insert_event_id(G2, UserQueryEvent(sid, prompt), "UserQuery", sid, Null,
                       prompt, f, TRUE, now)

\* reattribute_session_work_events: one row per LINKED_TO edge from a recent
\* work-tool Event to a Session Work Feature
ReattributionRows(G, now) ==
    {x \in DOMAIN G.linked :
        /\ x[2] \in SessionWorkByFlag(G)
        /\ G.events[x[1]].tool_name \in WorkToolNames
        /\ Minutes(G.events[x[1]].timestamp) > Minutes(now) - LookbackMinutes}

\* a re-attribution that moves the edge instead of adding one
reattribute_redirecting(G, f, now) ==
    LET rows == ReattributionRows(G, now)
        linked_count == SumEdges(G.linked, rows)
        new == {<<x[1], f>> : x \in rows}
    IN IF rows = {} THEN G
       ELSE [G EXCEPT
               !.linked = [y \in (DOMAIN @ \ rows) \cup new |->
                              IF y \in DOMAIN @ THEN @[y] ELSE 1],
               !.features[f] = [@ EXCEPT !.work_count = @ + linked_count]]

reattribute_session_work_events(G, f, now) ==
    LET rows == ReattributionRows(G, now)
        linked_count == SumEdges(G.linked, rows)
        new == {<<x[1], f>> : x \in rows}
    IN IF rows = {} THEN G
       ELSE [G EXCEPT
               !.linked = [y \in DOMAIN @ \cup new |->
                              IF y \in DOMAIN @ THEN @[y] ELSE 1],
               !.features[f] = [@ EXCEPT !.work_count = @ + linked_count]]

\* graph_db_helper.discover_feature
discover_feature(G, description, priority, mark_complete, now) ==
    LET G1 == create_feature(G, description, priority, ~mark_complete)
        f == Len(G1.features)
        G2 == IF mark_complete THEN complete_feature(G1, f) ELSE G1
    IN reattribute_session_work_events(G2, f, now)

\* IjokaClient.set_primary_focus, first query: every is_primary flag is cleared
clear_primary(G) ==
    [G EXCEPT !.features = [f \in DOMAIN @ |->
                               IF @[f].status # "deleted" /\ @[f].is_primary
                               THEN [@[f] EXCEPT !.is_primary = FALSE] ELSE @[f]]]

\* IjokaClient.set_primary_focus, second query: the Feature becomes primary
set_primary(G, f) ==
    [G EXCEPT !.features[f] = [@ EXCEPT !.is_primary = TRUE]]

\* IjokaClient.block_feature: the status is set, then the DEPENDS_ON edge is
\* merged when a blocking Feature is named and found
block_feature(G, f, blocker) ==
    LET G1 == [G EXCEPT !.features[f] = [@ EXCEPT !.status = "blocked"]]
    IN IF blocker \in FeatureIds(G1)
       THEN [G1 EXCEPT !.depends_on = @ \cup {<<f, blocker>>}]
       ELSE G1

\* ORDER BY f.priority DESC, f.created_at ASC: ids are in creation order
OrderedBefore(G, f, g) ==
    \/ G.features[f].priority > G.features[g].priority
    \/ G.features[f].priority = G.features[g].priority /\ f <= g

\* the first of a set of Features in that order
FirstOrdered(G, S) ==
    IF S = {} THEN NoFeature
    ELSE CHOOSE f \in S : \A g \in S : OrderedBefore(G, f, g)

\* a get_next_feature that looks at every Feature not yet complete
get_next_unfinished(G) ==
    FirstOrdered(G, {f \in FeatureIds(G) : G.features[f].status # "complete"})

\* IjokaClient.get_next_feature: WHERE f.status = 'pending', LIMIT 1
client_get_next_feature(G) ==
    FirstOrdered(G, {f \in FeatureIds(G) : G.features[f].status = "pending"})

\* git_utils.resolve_project_path(cwd): the git root of the working directory
resolve_project_path(cwd) == GitRoot

\* start_session, on Projects: get_or_create_project, MERGE (s:Session {id}),
\* MERGE (s)-[:IN_PROJECT]->(p)
start_session_in(G, sid, project_dir) ==
    [G EXCEPT !.projects = @ \cup {project_dir},
              !.session_nodes =
                  IF \E i \in DOMAIN @ : @[i].id = sid
                  THEN [i \in DOMAIN @ |->
                           IF @[i].id = sid
                           THEN [@[i] EXCEPT !.paths = @ \cup {project_dir}] ELSE @[i]]
                  ELSE Append(@, [id |-> sid, paths |-> {project_dir}, nudges_shown |-> {}])]

\* insert_event, on Projects: get_or_create_project, then
\* MERGE (s:Session {id})-[:IN_PROJECT]->(p), which creates the whole pattern
\* when no Session of that id is in that Project
insert_event_in(G, sid, project_dir) ==
    [G EXCEPT !.projects = @ \cup {project_dir},
              !.session_nodes =
                  IF \E i \in DOMAIN @ : @[i].id = sid /\ project_dir \in @[i].paths
                  THEN @
                  ELSE Append(@, [id |-> sid, paths |-> {project_dir}, nudges_shown |-> {}])]

\* record_nudge: MATCH (s:Session {id}) SET s.nudges_shown = ... + [nudge_type]
record_nudge(G, sid, nudge_type) ==
    [G EXCEPT !.session_nodes =
        [i \in DOMAIN @ |-> IF @[i].id = sid
                            THEN [@[i] EXCEPT !.nudges_shown = @ \cup {nudge_type}]
                            ELSE @[i]]]

\* generate_workflow_nudges: the commit reminder needs a work_count of 5 from
\* a query that returns at most 1, and no payload carries a driftScore, so the
\* nudge after a passed test run is the one that can be given; row is the
\* Session node that results[0] of has_been_nudged is
generate_workflow_nudges(G, sid, tool_name, input, is_error, af, row) ==
    IF is_mcp_meta_tool(tool_name) \/ is_diagnostic_command(tool_name, input)
    THEN [G |-> G, nudge |-> "none"]
    ELSE IF /\ tool_name = "Bash" /\ af # NoFeature
            /\ input = "pytest" /\ ~is_error
            /\ "feature_completion" \notin G.session_nodes[row].nudges_shown
    THEN [G |-> record_nudge(G, sid, "feature_completion"),
          nudge |-> "feature_completion"]
    ELSE [G |-> G, nudge |-> "none"]

\* ------------------------------------------------------------ hierarchy
\* the Features reached from those of S over one or more CHILD_OF edges
RECURSIVE ReachUp(_, _)
ReachUp(G, S) ==
    LET N == S \cup {x[2] : x \in {y \in G.child_of : y[1] \in S}}
    IN IF N = S THEN S ELSE ReachUp(G, N)

Parents(G, f) == {x[2] : x \in {y \in G.child_of : y[1] = f}}

\* a get_ancestors that follows one CHILD_OF edge only
get_parents_only(G, f) == Parents(G, f)

\* IjokaClient.get_ancestors: MATCH (child {id})-[:CHILD_OF*]->(ancestor)
get_ancestors(G, f) == ReachUp(G, Parents(G, f))

\* IjokaClient.create_feature with parent_id: the Feature (pending), then the
\* CHILD_OF edge to the parent
create_child_feature(G, description, priority, parent) ==
    LET G1 == create_feature(G, description, priority, FALSE)
    IN [G1 EXCEPT !.child_of = @ \cup {<<Len(G1.features), parent>>}]

\* IjokaClient.link_to_parent, the write: the old CHILD_OF edges of the child
\* are deleted and the edge to the parent is created
link_to_parent_write(G, f, parent) ==
    [G EXCEPT !.child_of = {x \in @ : x[1] # f} \cup {<<f, parent>>}]

\* IjokaClient.link_to_parent(feature_id, parent_id): the two ValueErrors,
\* else the write
link_to_parent(G, f, parent) ==
    IF f = parent THEN [G |-> G, result |-> "own_parent"]
    ELSE IF f \in get_ancestors(G, parent) THEN [G |-> G, result |-> "circular"]
    ELSE [G |-> link_to_parent_write(G, f, parent), result |-> "ok"]

\* IjokaClient.unlink_from_parent
unlink_from_parent(G, f) ==
    [G EXCEPT !.child_of = {x \in @ : x[1] # f}]

\* ------------------------------------------------------------ plan and steps
NoStep == 0
StepStatuses == {"pending", "in_progress", "completed", "skipped"}
\* a position whose Step was deleted keeps a deleted node: ids are never reused
DeletedStep == [feature |-> NoFeature, description |-> "", status |-> "deleted",
                step_order |-> 0]
StepIds(G, f) == {s \in 1..Len(G.steps) : G.steps[s].feature = f}
LowestOrder(G, S) == {s \in S : \A t \in S : G.steps[s].step_order <= G.steps[t].step_order}

\* graph_db_helper.create_step
create_step(G, f, description, order, status) ==
    [G EXCEPT !.steps = Append(@, [feature |-> f, description |-> description,
                                   status |-> status, step_order |-> order])]

\* graph_db_helper.update_step_status: SET s.status = $status
update_step_status(G, s, status) ==
    [G EXCEPT !.steps[s] = [@ EXCEPT !.status = status]]

\* graph_db_helper.get_active_step: the results its two LIMIT 1 queries can give
get_active_step(G, f) ==
    LET ip == {s \in StepIds(G, f) : G.steps[s].status = "in_progress"}
        pe == {s \in StepIds(G, f) : G.steps[s].status = "pending"}
    IN IF ip # {} THEN LowestOrder(G, ip)
       ELSE IF pe # {} THEN LowestOrder(G, pe)
       ELSE {NoStep}

\* sync_steps_from_todos, the loop over enumerate(todos): G0 is the store at
\* entry, whose Steps existing_by_desc indexes (descriptions are distinct within
\* a Feature under the inputs delivered)
RECURSIVE SyncTodos(_, _, _, _, _)
SyncTodos(G, G0, f, todos, i) ==
    IF i > Len(todos) THEN G
    ELSE LET desc == todos[i].content
             m == {s \in StepIds(G0, f) : G0.steps[s].description = desc}
         IN SyncTodos(IF m # {}
                      THEN update_step_status(G, CHOOSE s \in m : TRUE, todos[i].status)
                      ELSE create_step(G, f, desc, i - 1, todos[i].status),
                      G0, f, todos, i + 1)

\* sync_steps_from_todos: then the Steps absent from the todos become skipped
sync_steps_from_todos(G, f, todos) ==
    LET G1 == SyncTodos(G, G, f, todos, 1)
        current_descs == {todos[i].content : i \in 1..Len(todos)}
        gone == {s \in StepIds(G, f) : G.steps[s].description \notin current_descs}
    IN [G1 EXCEPT !.steps = [s \in DOMAIN @ |->
                               IF s \in gone THEN [@[s] EXCEPT !.status = "skipped"]
                               ELSE @[s]]]

\* handle_todowrite; af is the result of get_active_feature
handle_todowrite(G, sid, todos, af, now) ==
    IF todos = <<>> \/ af = NoFeature THEN G
    ELSE insert_event_uuid(sync_steps_from_todos(G, af, todos), "PlanUpdate", sid,
                           "TodoWrite", Null, af, TRUE, now)

\* IjokaClient.set_plan: DETACH DELETE the Feature's Steps, then CREATE one
\* pending Step per description with step_order = idx
RECURSIVE CreatePlanSteps(_, _, _, _)
CreatePlanSteps(G, f, plan, i) ==
    IF i > Len(plan) THEN G
    ELSE CreatePlanSteps(create_step(G, f, plan[i], i - 1, "pending"), f, plan, i + 1)
\* a set_plan that creates the new Steps without deleting the old ones
set_plan_keeping(G, f, plan) == CreatePlanSteps(G, f, plan, 1)

set_plan(G, f, plan) ==
    CreatePlanSteps([G EXCEPT !.steps = [s \in DOMAIN @ |->
                                           IF @[s].feature = f THEN DeletedStep
                                           ELSE @[s]]],
                    f, plan, 1)

\* IjokaClient.get_plan: the orders ORDER BY s.step_order ASC can return the
\* Feature's Steps in (Steps of equal step_order come in either order)
PlanOrders(G, f) ==
    LET S == StepIds(G, f)
        n == Cardinality(S)
    IN {o \in [1..n -> S] :
          /\ \A i, j \in 1..n : i # j => o[i] # o[j]
          /\ \A i, j \in 1..n :
                i < j => G.steps[o[i]].step_order <= G.steps[o[j]].step_order}

\* IjokaClient.get_plan: StepStatus(node["status"]) raises ValueError when a
\* Step's status is no member of the enum
get_plan_raises(G, f) ==
    \E s \in StepIds(G, f) : G.steps[s].status \notin StepStatuses

\* IjokaClient.get_plan: the "steps" lists it can return, each Step by its
\* description, status and step_order; none when it raises
get_plan(G, f) ==
    IF get_plan_raises(G, f) THEN {}
    ELSE {[i \in 1..Len(o) |-> [description |-> G.steps[o[i]].description,
                                 status |-> G.steps[o[i]].status,
                                 step_order |-> G.steps[o[i]].step_order]] :
             o \in PlanOrders(G, f)}

\* IjokaClient.get_active_step: MATCH (s:Step {status: 'in_progress'}) LIMIT 1
client_get_active_step(G, f) ==
    LET ip == {s \in StepIds(G, f) : G.steps[s].status = "in_progress"}
    IN IF ip # {} THEN ip ELSE {NoStep}

\* IjokaClient.update_step_status: the write, then StepStatus(node["status"])
\* raises ValueError for a status that is no member of the enum
client_update_step_status(G, s, status) ==
    [G |-> update_step_status(G, s, status), raised |-> status \notin StepStatuses]

\* IjokaClient.get_plan, as checkpoint reads it: the first pending Step in
\* step_order
NextPending(G, f) ==
    LET pe == {s \in StepIds(G, f) : G.steps[s].status = "pending"}
    IN IF pe = {} THEN {NoStep} ELSE LowestOrder(G, pe)

\* step_completed.lower() in active_step.description.lower(), on the
\* descriptions and inputs delivered
Contains(description, sub) ==
    \/ sub = description
    \/ <<description, sub>> \in {<<"parse input", "parse">>, <<"run tests", "tests">>}

\* IjokaClient.checkpoint(feature_id, step_completed); active_step and
\* next_pending are the results of the LIMIT 1 read and of get_plan
checkpoint(G, f, step_completed, active_step, next_pending) ==
    IF f \notin FeatureIds(G) THEN G
    ELSE IF step_completed = Null \/ active_step = NoStep THEN G
    ELSE IF ~Contains(G.steps[active_step].description, step_completed) THEN G
    ELSE LET r == client_update_step_status(G, active_step, "complete")
         IN IF r.raised THEN r.G
            ELSE IF next_pending = NoStep THEN r.G
            ELSE client_update_step_status(r.G, next_pending, "in_progress").G

\* text.lower().split(), on the descriptions and activities delivered
LowerSplit(text) ==
    CASE text = "parse input" -> {"parse", "input"}
      [] text = "run tests" -> {"run", "tests"}
      [] text = "update UI colours" -> {"update", "ui", "colours"}
      [] text = "parse the input" -> {"parse", "the", "input"}
      [] text = "fix tests" -> {"fix", "tests"}
      [] text = "to the" -> {"to", "the"}
      [] OTHER -> {text}

common_words == {"the", "a", "an", "and", "or", "but", "in", "on", "at", "to", "for"}

\* the drift check of a plan that compares the activity with every Step
drift_warnings_whole_plan(G, f, current_activity, active_step) ==
    IF current_activity = Null \/ active_step = NoStep THEN "none"
    ELSE LET activity_words == LowerSplit(current_activity) \ common_words
             step_words == UNION {LowerSplit(G.steps[t].description) :
                                     t \in StepIds(G, f)} \ common_words
         IN IF activity_words \cap step_words = {}
               /\ activity_words # {} /\ step_words # {}
            THEN "drift" ELSE "none"

\* IjokaClient.checkpoint, the drift detection: the words of current_activity
\* and of the description of the Step read at entry, without the common words
drift_warnings(G, f, current_activity, active_step) ==
    IF current_activity = Null \/ active_step = NoStep THEN "none"
    ELSE LET activity_words == LowerSplit(current_activity) \ common_words
             step_words == LowerSplit(G.steps[active_step].description) \ common_words
         IN IF activity_words \cap step_words = {}
               /\ activity_words # {} /\ step_words # {}
            THEN "drift" ELSE "none"

\* IjokaClient.discover_feature without steps: create_feature (pending), then
\* complete_feature or start_feature under a "cli-<timestamp>" session; no
\* re-attribution, reattributed_count is the literal 0
api_discover_feature(G, description, priority, mark_complete, now) ==
    LET G1 == create_feature(G, description, priority, FALSE)
        f == Len(G1.features)
    IN IF mark_complete THEN complete_feature(G1, f)
       ELSE start_feature_write(G1, f, "cli", CliSession(now), now)

\* IjokaClient.archive_feature: DETACH DELETE removes the Feature node with
\* every relationship it has
DeletedNode == NewFeature("", "deleted", 0, FALSE)
archive_feature(G, f) ==
    [G EXCEPT !.steps = [s \in DOMAIN @ |->
                            IF @[s].feature = f THEN DeletedStep ELSE @[s]],
              !.features[f] = DeletedNode,
              !.child_of = {x \in @ : x[1] # f /\ x[2] # f},
              !.depends_on = {x \in @ : x[1] # f /\ x[2] # f},
              !.linked = [x \in {y \in DOMAIN @ : y[2] # f} |-> @[x]]]

\* handle_stop: one AgentStop Event per session, linked to no Feature
handle_stop(G, sid, now) ==
    insert_event_id(G, SessionEvent("AgentStop", sid), "AgentStop", sid, Null,
                    Null, NoFeature, TRUE, now)

\* session-end.py main, for a hook input without a transcript: end_session,
\* then the SessionEnd Event of the session
handle_session_end(G, sid, now) ==
    insert_event_id(end_session(G, sid, now), SessionEvent("SessionEnd", sid),
                    "SessionEnd", sid, Null, Null, NoFeature, TRUE, now)

\* session-start.py main: run_quick_diagnostics, start_session, insert_event
handle_session_start(G, sid, now) ==
    LET G0 == IF SessionWorkByFlag(G) = {} /\ SessionWorkByDescription(G) = {}
              THEN create_session_work_feature(G) ELSE G
        G1 == start_session(G0, sid, now)
    IN insert_event_id(G1, SessionEvent("SessionStart", sid), "SessionStart", sid,
                       Null, Null, NoFeature, TRUE, now)


\* -------------------------------------------------------------------- state
NoLast == [op |-> "none", sid |-> NoSession, force |-> FALSE,
           existing |-> NoSession, result |-> "none"]

\* a call in flight: the code position, the arguments and the local variables
IdleCall == [op |-> "none", pc |-> "idle", f |-> NoFeature, sid |-> NoSession,
             agent |-> Null, existing |-> NoSession, caller_active |-> FALSE,
             event |-> NoEvent, seen |-> Null, plan |-> <<>>, idx |-> 0,
             steps_seen |-> <<>>, parent |-> NoFeature, errors |-> <<>>,
             waits |-> <<>>, result |-> "none"]
Workers == {"w1", "w2"}

Init ==
    /\ clock = 0
    /\ features = <<>>
    /\ sessions = [s \in SessionIds |-> NoSessionNode]
    /\ events = <<>>
    /\ linked = <<>>
    /\ triggered = {}
    /\ status_events = <<>>
    /\ steps = <<>>
    /\ child_of = {}
    /\ depends_on = {}
    /\ projects = {}
    /\ session_nodes = <<>>
    /\ nuuid = 0
    /\ deliveries = 0
    /\ last = NoLast
    /\ calls = [w \in Workers |-> IdleCall]

\* ------------------------------------------------------------------ actions
Tick ==
    /\ clock' = clock + 1
    /\ UNCHANGED <<features, sessions, events, linked, triggered, status_events,
                   steps, child_of, depends_on, projects, session_nodes, nuuid, deliveries,
          last, calls>>

\* graph_db_helper.create_feature(project_dir, description, priority, in_progress)
CreateFeature(description, priority, in_progress) ==
    /\ Commit(create_feature(Store, description, priority, in_progress))
    /\ last' = NoLast
    /\ UNCHANGED <<clock, deliveries, calls>>

\* graph_db_helper.discover_feature(project_dir, description, priority, mark_complete)
DiscoverFeature(description, priority, mark_complete) ==
    /\ Commit(discover_feature(Store, description, priority, mark_complete, clock))
    /\ last' = NoLast
    /\ UNCHANGED <<clock, deliveries, calls>>

\* POST /features/discover -> IjokaClient.discover_feature
ApiDiscoverFeature(description, priority, mark_complete) ==
    /\ Commit(api_discover_feature(Store, description, priority, mark_complete, clock))
    /\ last' = NoLast
    /\ UNCHANGED <<clock, deliveries, calls>>

\* DELETE /features/{id} -> IjokaClient.archive_feature
ArchiveFeature(f) ==
    /\ f \in FeatureIds(Store)
    /\ Commit(archive_feature(Store, f))
    /\ last' = NoLast
    /\ UNCHANGED <<clock, deliveries, calls>>

\* hook PostToolUse with tool_name TodoWrite
TodoWrite(sid, todos) ==
    /\ \E af \in get_active_feature(Store) :
          Commit(handle_todowrite(Store, sid, todos, af, clock))
    /\ deliveries' = deliveries + 1
    /\ last' = NoLast
    /\ UNCHANGED <<clock, calls>>

\* POST /features/{id}/plan -> IjokaClient.set_plan
SetPlan(f, plan) ==
    /\ f \in FeatureIds(Store)
    /\ Commit(set_plan(Store, f, plan))
    /\ deliveries' = deliveries + 1
    /\ last' = NoLast
    /\ UNCHANGED <<clock, calls>>

\* IjokaClient.checkpoint(feature_id, step_completed), behind POST /checkpoint
Checkpoint(f, step_completed) ==
    /\ f \in FeatureIds(Store)
    /\ \E a \in client_get_active_step(Store, f), np \in NextPending(Store, f) :
          Commit(checkpoint(Store, f, step_completed, a, np))
    /\ deliveries' = deliveries + 1
    /\ last' = NoLast
    /\ UNCHANGED <<clock, calls>>

\* IjokaClient.checkpoint(feature_id, step_completed, current_activity) with
\* the warnings it returns
CheckpointWarnings(f, step_completed, current_activity) ==
    /\ f \in FeatureIds(Store)
    /\ \E a \in client_get_active_step(Store, f), np \in NextPending(Store, f) :
          /\ Commit(checkpoint(Store, f, step_completed, a, np))
          /\ last' = [NoLast EXCEPT !.op = "checkpoint",
                                    !.result = drift_warnings(Store, f, current_activity, a)]
    /\ deliveries' = deliveries + 1
    /\ UNCHANGED <<clock, calls>>

\* IjokaClient.create_feature(description, parent_id = parent)
CreateChildFeature(description, priority, parent) ==
    /\ parent \in FeatureIds(Store)
    /\ Commit(create_child_feature(Store, description, priority, parent))
    /\ last' = NoLast
    /\ UNCHANGED <<clock, deliveries, calls>>

\* IjokaClient.link_to_parent(feature_id, parent_id)
LinkToParent(f, parent) ==
    /\ f \in FeatureIds(Store) /\ parent \in FeatureIds(Store)
    /\ Commit(link_to_parent(Store, f, parent).G)
    /\ last' = [NoLast EXCEPT !.op = "link_to_parent",
                              !.result = link_to_parent(Store, f, parent).result]
    /\ UNCHANGED <<clock, deliveries, calls>>

\* IjokaClient.unlink_from_parent(feature_id)
UnlinkFromParent(f) ==
    /\ f \in FeatureIds(Store)
    /\ Commit(unlink_from_parent(Store, f))
    /\ last' = [NoLast EXCEPT !.op = "unlink_from_parent", !.result = "ok"]
    /\ UNCHANGED <<clock, deliveries, calls>>

\* graph_db_helper.start_feature(feature_id, agent, session_id, force_override)
StartFeature(f, agent, sid, force) ==
    LET existing == get_feature_claim(Store, f)
        active == IF existing # NoSession /\ existing # sid
                  THEN is_session_active(Store, existing, clock) ELSE FALSE
        conflict == ClaimConflict(existing, sid, active, force)
    IN /\ f \in FeatureIds(Store)
       /\ IF conflict THEN Commit(Store)
          ELSE Commit(start_feature_write(Store, f, agent, sid, clock))
       /\ last' = [op |-> "start_feature", sid |-> sid, force |-> force,
                   existing |-> existing,
                   result |-> IF conflict THEN "conflict" ELSE "ok"]
       /\ UNCHANGED <<clock, deliveries, calls>>

\* graph_db_helper.complete_feature(feature_id)
CompleteFeature(f) ==
    /\ f \in FeatureIds(Store)
    /\ Commit(complete_feature(Store, f))
    /\ last' = NoLast
    /\ UNCHANGED <<clock, deliveries, calls>>

\* IjokaClient.start_feature(feature_id, agent), behind POST /features/{id}/start:
\* the session id is "cli-<timestamp>"; the response is 200 unless the Feature
\* is unknown
ApiStartFeature(f, agent) ==
    LET existing == get_feature_claim(Store, f)
        sid == CliSession(clock)
    IN /\ f \in FeatureIds(Store)
       /\ Commit(start_feature_write(Store, f, agent, sid, clock))
       /\ last' = [op |-> "api_start_feature", sid |-> sid, force |-> FALSE,
                   existing |-> existing, result |-> "200"]
       /\ UNCHANGED <<clock, deliveries, calls>>

\* session-start.py main with the cwd of the hook input: the Project is the
\* one resolve_project_path gives
SessionStartAt(sid, cwd) ==
    LET project_dir == resolve_project_path(cwd)
        G1 == start_session_in(handle_session_start(Store, sid, clock), sid, project_dir)
    IN /\ Commit(insert_event_in(G1, sid, project_dir))
       /\ deliveries' = deliveries + 1
       /\ last' = NoLast
       /\ UNCHANGED <<clock, calls>>

\* track-event.py main with the cwd of the hook input, for Stop
\* (hook_type = "Stop") and for a successful tool call (hook_type =
\* "PostToolUse"): project_dir is the cwd as given, only the Features of that
\* Project are read, and the nudges of handle_post_tool_use are the response
TrackEventAt(hook_type, sid, cwd, tool_use_id) ==
    /\ \E af \in (IF cwd = GitRoot THEN get_active_feature(Store) ELSE {NoFeature}) :
          LET t == ToolCallOf[tool_use_id]
              G1 == IF hook_type = "Stop" THEN handle_stop(Store, sid, clock)
                    ELSE handle_post_tool_use(Store, sid, t.tool_name, t.input,
                                              tool_use_id, FALSE, NoFeature, af, clock)
              G2 == insert_event_in(G1, sid, cwd)
          IN IF hook_type = "Stop"
             THEN Commit(G2) /\ last' = NoLast
             ELSE \E row \in {i \in DOMAIN G2.session_nodes :
                                  G2.session_nodes[i].id = sid} :
                     LET r == generate_workflow_nudges(G2, sid, t.tool_name, t.input,
                                                       FALSE, af, row)
                     IN /\ Commit(r.G)
                        /\ last' = [NoLast EXCEPT !.op = "PostToolUse", !.sid = sid,
                                                   !.result = r.nudge]
    /\ deliveries' = deliveries + 1
    /\ UNCHANGED <<clock, calls>>

\* IjokaClient.start_feature(agent=agent) without a feature_id: the next
\* Feature is looked up, ValueError when there is none
StartNextFeature(agent) ==
    LET f == client_get_next_feature(Store)
        sid == CliSession(clock)
    IN /\ IF f = NoFeature
          THEN /\ Commit(Store)
               /\ last' = [NoLast EXCEPT !.op = "start_next_feature",
                                          !.result = "ValueError"]
          ELSE /\ Commit(start_feature_write(Store, f, agent, sid, clock))
               /\ last' = [NoLast EXCEPT !.op = "start_next_feature", !.sid = sid,
                                          !.result = "ok"]
       /\ UNCHANGED <<clock, deliveries, calls>>

\* IjokaClient.block_feature(feature_id, reason, blocking_feature_id)
BlockFeature(f, blocker) ==
    /\ f \in FeatureIds(Store)
    /\ Commit(block_feature(Store, f, blocker))
    /\ last' = NoLast
    /\ UNCHANGED <<clock, deliveries, calls>>

\* a Feature with completion criteria is put into the store
CreateCriteriaFeature(description, priority, criteria) ==
    /\ Commit(create_criteria_feature(Store, description, priority, criteria))
    /\ last' = NoLast
    /\ UNCHANGED <<clock, deliveries, calls>>

\* graph_db_helper.insert_event(event_id, feature_id) for a successful Edit
InsertEvent(sid, tool_use_id, f) ==
    /\ f \in FeatureIds(Store)
    /\ Commit(insert_event_id(Store, ToolEvent(tool_use_id), "ToolCall", sid, "Edit",
                              "plain", f, TRUE, clock))
    /\ deliveries' = deliveries + 1
    /\ last' = NoLast
    /\ UNCHANGED <<clock, calls>>

\* hook SessionStart
SessionStart(sid) ==
    /\ Commit(handle_session_start(Store, sid, clock))
    /\ deliveries' = deliveries + 1
    /\ last' = NoLast
    /\ UNCHANGED <<clock, calls>>

\* hook PostToolUse
PostToolUse(sid, tool_name, input, tool_use_id, is_error) ==
    /\ \E af \in get_active_feature(Store),
          sw \in (IF SessionWorkByDescription(Store) = {} THEN {NoFeature}
                  ELSE SessionWorkByDescription(Store)) :
          Commit(handle_post_tool_use(Store, sid, tool_name, input, tool_use_id,
                                      is_error, sw, af, clock))
    /\ deliveries' = deliveries + 1
    /\ last' = NoLast
    /\ UNCHANGED <<clock, calls>>

\* hook UserPromptSubmit
UserPromptSubmit(sid, prompt) ==
    /\ \E af \in get_active_feature(Store) :
          Commit(handle_user_prompt_submit(Store, sid, prompt, af, clock))
    /\ deliveries' = deliveries + 1
    /\ last' = NoLast
    /\ UNCHANGED <<clock, calls>>

\* hook SessionEnd
SessionEnd(sid) ==
    /\ Commit(handle_session_end(Store, sid, clock))
    /\ deliveries' = deliveries + 1
    /\ last' = NoLast
    /\ UNCHANGED <<clock, calls>>

\* hook Stop
Stop(sid) ==
    /\ Commit(handle_stop(Store, sid, clock))
    /\ deliveries' = deliveries + 1
    /\ last' = NoLast
    /\ UNCHANGED <<clock, calls>>

\* ------------------------------------------- the calls, query by query
\* Each run_query / run_write_query is a transaction of its own; a call of
\* start_feature or of the SessionStart hook is a sequence of them.
UnchangedStore ==
    UNCHANGED <<features, sessions, events, linked, triggered, status_events, steps,
                child_of, depends_on, projects, session_nodes, nuuid>>

\* start_feature(feature_id, agent, session_id) is entered; force_override = False
BeginStartFeature(w, f, agent, sid) ==
    /\ calls[w].pc \in {"idle", "done"}
    /\ f \in FeatureIds(Store)
    /\ calls' = [calls EXCEPT ![w] =
                    [IdleCall EXCEPT !.op = "start_feature", !.pc = "get_feature_claim",
                                     !.f = f, !.sid = sid, !.agent = agent,
                                     !.caller_active = is_session_active(Store, sid, clock)]]
    /\ deliveries' = deliveries + 1
    /\ UnchangedStore
    /\ UNCHANGED <<clock, last>>

\* existing_claim = get_feature_claim(feature_id)
GetFeatureClaim(w) ==
    LET c == calls[w]
        existing == get_feature_claim(Store, c.f)
    IN /\ c.pc = "get_feature_claim"
       /\ calls' = [calls EXCEPT ![w] =
                       [c EXCEPT !.existing = existing,
                                 !.pc = IF existing # NoSession /\ existing # c.sid
                                        THEN "is_session_active" ELSE "write"]]
       /\ UnchangedStore
       /\ UNCHANGED <<clock, deliveries, last>>

\* is_claim_active = is_session_active(existing_claim["session_id"])
IsSessionActive(w) ==
    LET c == calls[w]
        active == is_session_active(Store, c.existing, clock)
    IN /\ c.pc = "is_session_active"
       /\ calls' = [calls EXCEPT ![w] =
                       IF ClaimConflict(c.existing, c.sid, active, FALSE)
                       THEN [c EXCEPT !.pc = "done", !.result = "conflict"]
                       ELSE [c EXCEPT !.pc = "write"]]
       /\ UnchangedStore
       /\ UNCHANGED <<clock, deliveries, last>>

\* the write query of start_feature
WriteClaim(w) ==
    LET c == calls[w]
    IN /\ c.pc = "write"
       /\ Commit(start_feature_write(Store, c.f, c.agent, c.sid, clock))
       /\ calls' = [calls EXCEPT ![w] = [c EXCEPT !.pc = "done", !.result = "ok"]]
       /\ UNCHANGED <<clock, deliveries, last>>

\* the SessionStart hook of session sid is entered
BeginSessionStart(w, sid) ==
    /\ calls[w].pc \in {"idle", "done"}
    /\ calls' = [calls EXCEPT ![w] =
                    [IdleCall EXCEPT !.op = "session_start",
                                     !.pc = "run_quick_diagnostics", !.sid = sid]]
    /\ deliveries' = deliveries + 1
    /\ UnchangedStore
    /\ UNCHANGED <<clock, last>>

\* run_quick_diagnostics: MATCH (f:Feature {is_session_work: true})
QuickDiagnostics(w) ==
    LET c == calls[w]
    IN /\ c.pc = "run_quick_diagnostics"
       /\ calls' = [calls EXCEPT ![w] =
                       [c EXCEPT !.pc = IF SessionWorkByFlag(Store) = {}
                                        THEN "get_session_work" ELSE "start_session"]]
       /\ UnchangedStore
       /\ UNCHANGED <<clock, deliveries, last>>

\* get_or_create_session_work_feature: the query by description
GetSessionWork(w) ==
    LET c == calls[w]
    IN /\ c.pc = "get_session_work"
       /\ calls' = [calls EXCEPT ![w] =
                       [c EXCEPT !.pc = IF SessionWorkByDescription(Store) = {}
                                        THEN "create_session_work" ELSE "start_session"]]
       /\ UnchangedStore
       /\ UNCHANGED <<clock, deliveries, last>>

\* get_or_create_session_work_feature: the CREATE
CreateSessionWork(w) ==
    LET c == calls[w]
    IN /\ c.pc = "create_session_work"
       /\ Commit(create_session_work_feature(Store))
       /\ calls' = [calls EXCEPT ![w] = [c EXCEPT !.pc = "start_session"]]
       /\ UNCHANGED <<clock, deliveries, last>>

\* start_session and the SessionStart Event
RecordSessionStart(w) ==
    LET c == calls[w]
        G1 == start_session(Store, c.sid, clock)
    IN /\ c.pc = "start_session"
       /\ Commit(insert_event_id(G1, SessionEvent("SessionStart", c.sid),
                                 "SessionStart", c.sid, Null, Null, NoFeature, TRUE,
                                 clock))
       /\ calls' = [calls EXCEPT ![w] = [c EXCEPT !.pc = "done", !.result = "ok"]]
       /\ UNCHANGED <<clock, deliveries, last>>

\* insert_event(event_type = "ToolCall", session_id, tool_name = "Edit",
\* feature_id, event_id) is entered
BeginInsertEvent(w, sid, e, f) ==
    /\ calls[w].pc \in {"idle", "done"}
    /\ f \in FeatureIds(Store)
    /\ calls' = [calls EXCEPT ![w] =
                    [IdleCall EXCEPT !.op = "insert_event", !.pc = "insert_event_write",
                                     !.f = f, !.sid = sid, !.event = e]]
    /\ deliveries' = deliveries + 1
    /\ UnchangedStore
    /\ UNCHANGED <<clock, last>>

\* insert_event: the write query
InsertEventWrite(w) ==
    LET c == calls[w]
    IN /\ c.pc = "insert_event_write"
       /\ Commit(insert_event_write(Store, c.event, "ToolCall", c.sid, "Edit", "plain",
                                    c.f, TRUE, clock))
       /\ calls' = [calls EXCEPT ![w] = [c EXCEPT !.pc = "get_feature_by_id"]]
       /\ UNCHANGED <<clock, deliveries, last>>

\* auto_transition_to_in_progress: feature = get_feature_by_id(feature_id) and
\* the two checks on it
GetFeatureById(w) ==
    LET c == calls[w]
        feature == features[c.f]
    IN /\ c.pc = "get_feature_by_id"
       /\ calls' = [calls EXCEPT ![w] =
                       IF feature.status # "pending" \/ feature.is_session_work
                       THEN [c EXCEPT !.seen = feature.status, !.pc = "done",
                                      !.result = "ok"]
                       ELSE [c EXCEPT !.seen = feature.status,
                                      !.pc = "create_status_event"]]
       /\ UnchangedStore
       /\ UNCHANGED <<clock, deliveries, last>>

\* auto_transition_to_in_progress: create_status_event(pending -> in_progress)
CreateStatusEvent(w) ==
    LET c == calls[w]
    IN /\ c.pc = "create_status_event"
       /\ Commit(create_status_event(Store, c.f, "pending", "in_progress",
                                     <<"auto:first_activity", c.event>>))
       /\ calls' = [calls EXCEPT ![w] = [c EXCEPT !.pc = "done", !.result = "ok"]]
       /\ UNCHANGED <<clock, deliveries, last>>

\* ----------------------------------------------------------- specifications
\* the claim arbiter: the feature operations of two sessions, their Stop hooks
\* (a session's activity) and the passing of time
Next ==
    \/ clock < MaxTicks /\ Tick
    \/ \E ip \in BOOLEAN :
          /\ Len(features) < MaxClaimFeatures
          /\ CreateFeature("parser", DefaultPriority, ip)
    \/ \E f \in FeatureIds(Store), c \in Callers, force \in BOOLEAN :
          StartFeature(f, c.agent, c.sid, force)
    \/ \E f \in FeatureIds(Store) : CompleteFeature(f)
    \/ \E s \in SessionIds : deliveries < MaxStops /\ Stop(s)

Spec == Init /\ [][Next]_vars

\* the claim arbiter beside a session that ends
EndingSessions == {1}
NextEnd ==
    \/ clock < MaxTicks /\ Tick
    \/ /\ Len(features) < MaxClaimFeatures
       /\ CreateFeature("parser", DefaultPriority, FALSE)
    \/ \E f \in FeatureIds(Store), c \in Callers :
          StartFeature(f, c.agent, c.sid, FALSE)
    \/ \E s \in EndingSessions : deliveries < MaxEndDeliveries /\ Stop(s)
    \/ \E s \in EndingSessions : deliveries < MaxEndDeliveries /\ SessionEnd(s)

SpecEnd == Init /\ [][NextEnd]_vars

\* the claim arbiter with the HTTP API beside the hook-side helper
NextApi ==
    \/ Next
    \/ \E f \in FeatureIds(Store) : ApiStartFeature(f, ApiAgent)

SpecApi == Init /\ [][NextApi]_vars

\* the ingestion pipeline: the hooks of one session over the Features of a Project
IngestSessions == {1}
RoomForSessionWork ==
    Len(features) < MaxFeatures \/ SessionWorkByDescription(Store) # {}
NextIngest ==
    \/ clock < MaxIngestTicks /\ Tick
    \/ \E x \in FeatureInputs, ip \in BOOLEAN :
          /\ Len(features) < MaxFeatures
          /\ CreateFeature(x.description, x.priority, ip)
    \/ \E x \in FeatureInputs, mc \in BOOLEAN :
          /\ Len(features) < MaxFeatures
          /\ DiscoverFeature(x.description, x.priority, mc)
    \/ \E s \in IngestSessions :
          deliveries < MaxDeliveries /\ RoomForSessionWork /\ SessionStart(s)
    \/ \E s \in IngestSessions, t \in ToolCalls, u \in ToolUseIds, err \in BOOLEAN :
          /\ deliveries < MaxDeliveries
          /\ is_mcp_meta_tool(t.tool_name) => RoomForSessionWork
          /\ PostToolUse(s, t.tool_name, t.input, u, err)
    \/ \E s \in IngestSessions, p \in Prompts :
          deliveries < MaxDeliveries /\ UserPromptSubmit(s, p)

SpecIngest == Init /\ [][NextIngest]_vars

\* two workers running start_feature and the SessionStart hook query by query
NextConc ==
    \/ \E ip \in BOOLEAN :
          /\ Cardinality({f \in FeatureIds(Store) : ~features[f].is_session_work})
                < MaxClaimFeatures
          /\ CreateFeature("parser", DefaultPriority, ip)
    \/ \E w \in Workers, f \in FeatureIds(Store), c \in Callers :
          deliveries < MaxCalls /\ BeginStartFeature(w, f, c.agent, c.sid)
    \/ \E w \in Workers : GetFeatureClaim(w)
    \/ \E w \in Workers : IsSessionActive(w)
    \/ \E w \in Workers : WriteClaim(w)
    \/ \E w \in Workers, s \in SessionIds :
          deliveries < MaxCalls /\ BeginSessionStart(w, s)
    \/ \E w \in Workers : QuickDiagnostics(w)
    \/ \E w \in Workers : GetSessionWork(w)
    \/ \E w \in Workers : CreateSessionWork(w)
    \/ \E w \in Workers : RecordSessionStart(w)

SpecConc == Init /\ [][NextConc]_vars

\* two workers running insert_event query by query over the Features of a Project
NextEvents ==
    \/ \E ip \in BOOLEAN :
          /\ Cardinality({f \in FeatureIds(Store) : ~features[f].is_session_work})
                < MaxClaimFeatures
          /\ CreateFeature("parser", DefaultPriority, ip)
    \/ \E s \in SessionIds :
          deliveries < MaxEventCalls /\ SessionStart(s)
    \/ \E w \in Workers, s \in SessionIds, u \in ToolUseIds, f \in FeatureIds(Store) :
          deliveries < MaxEventCalls /\ BeginInsertEvent(w, s, ToolEvent(u), f)
    \/ \E w \in Workers : InsertEventWrite(w)
    \/ \E w \in Workers : GetFeatureById(w)
    \/ \E w \in Workers : CreateStatusEvent(w)

SpecEvents == Init /\ [][NextEvents]_vars

\* IjokaClient.set_plan(feature_id, steps) is entered
BeginSetPlan(w, f, plan) ==
    /\ calls[w].pc \in {"idle", "done"}
    /\ f \in FeatureIds(Store)
    /\ calls' = [calls EXCEPT ![w] =
                    [IdleCall EXCEPT !.op = "set_plan", !.pc = "set_plan_delete",
                                     !.f = f, !.plan = plan]]
    /\ deliveries' = deliveries + 1
    /\ UnchangedStore
    /\ UNCHANGED <<clock, last>>

\* set_plan: session.run of the DETACH DELETE, an auto-commit transaction
SetPlanDelete(w) ==
    LET c == calls[w]
    IN /\ c.pc = "set_plan_delete"
       /\ Commit(set_plan(Store, c.f, <<>>))
       /\ calls' = [calls EXCEPT ![w] =
                       IF c.plan = <<>> THEN [c EXCEPT !.pc = "done", !.result = "ok"]
                       ELSE [c EXCEPT !.pc = "set_plan_create", !.idx = 1]]
       /\ UNCHANGED <<clock, deliveries, last>>

\* set_plan: session.run of one CREATE of the loop, an auto-commit transaction
SetPlanCreate(w) ==
    LET c == calls[w]
    IN /\ c.pc = "set_plan_create"
       /\ Commit(create_step(Store, c.f, c.plan[c.idx], c.idx - 1, "pending"))
       /\ calls' = [calls EXCEPT ![w] =
                       IF c.idx = Len(c.plan) THEN [c EXCEPT !.pc = "done", !.result = "ok"]
                       ELSE [c EXCEPT !.idx = c.idx + 1]]
       /\ UNCHANGED <<clock, deliveries, last>>

\* IjokaClient.get_plan(feature_id): one read query; the worker keeps the steps
GetPlan(w, f) ==
    /\ calls[w].pc \in {"idle", "done"}
    /\ f \in FeatureIds(Store)
    /\ \E r \in get_plan(Store, f) :
          calls' = [calls EXCEPT ![w] =
                       [IdleCall EXCEPT !.op = "get_plan", !.pc = "done", !.f = f,
                                        !.steps_seen = r, !.result = "ok"]]
    /\ deliveries' = deliveries + 1
    /\ UnchangedStore
    /\ UNCHANGED <<clock, last>>

\* IjokaClient.link_to_parent(feature_id, parent_id) is entered: the
\* feature_id == parent_id check
BeginLinkToParent(w, f, parent) ==
    /\ calls[w].pc \in {"idle", "done"}
    /\ f \in FeatureIds(Store) /\ parent \in FeatureIds(Store)
    /\ calls' = [calls EXCEPT ![w] =
                    IF f = parent
                    THEN [IdleCall EXCEPT !.op = "link_to_parent", !.pc = "done",
                                          !.f = f, !.parent = parent,
                                          !.result = "own_parent"]
                    ELSE [IdleCall EXCEPT !.op = "link_to_parent",
                                          !.pc = "get_ancestors",
                                          !.f = f, !.parent = parent]]
    /\ deliveries' = deliveries + 1
    /\ UnchangedStore
    /\ UNCHANGED <<clock, last>>

\* link_to_parent: ancestors = self.get_ancestors(parent_id), a read in a
\* session of its own, and the check on it
LinkGetAncestors(w) ==
    LET c == calls[w]
    IN /\ c.pc = "get_ancestors"
       /\ calls' = [calls EXCEPT ![w] =
                       IF c.f \in get_ancestors(Store, c.parent)
                       THEN [c EXCEPT !.pc = "done", !.result = "circular"]
                       ELSE [c EXCEPT !.pc = "link_write"]]
       /\ UnchangedStore
       /\ UNCHANGED <<clock, deliveries, last>>

\* link_to_parent: the write query
LinkWrite(w) ==
    LET c == calls[w]
    IN /\ c.pc = "link_write"
       /\ Commit(link_to_parent_write(Store, c.f, c.parent))
       /\ calls' = [calls EXCEPT ![w] = [c EXCEPT !.pc = "done", !.result = "ok"]]
       /\ UNCHANGED <<clock, deliveries, last>>

\* IjokaClient.set_primary_focus(feature_id) is entered
BeginSetPrimaryFocus(w, f) ==
    /\ calls[w].pc \in {"idle", "done"}
    /\ f \in FeatureIds(Store)
    /\ calls' = [calls EXCEPT ![w] =
                    [IdleCall EXCEPT !.op = "set_primary_focus", !.pc = "clear_primary",
                                     !.f = f]]
    /\ deliveries' = deliveries + 1
    /\ UnchangedStore
    /\ UNCHANGED <<clock, last>>

\* set_primary_focus: session.run of the clearing query, an auto-commit
\* transaction
ClearPrimary(w) ==
    LET c == calls[w]
    IN /\ c.pc = "clear_primary"
       /\ Commit(clear_primary(Store))
       /\ calls' = [calls EXCEPT ![w] = [c EXCEPT !.pc = "set_primary"]]
       /\ UNCHANGED <<clock, deliveries, last>>

\* set_primary_focus: session.run of the setting query, an auto-commit
\* transaction
SetPrimary(w) ==
    LET c == calls[w]
    IN /\ c.pc = "set_primary"
       /\ Commit(set_primary(Store, c.f))
       /\ calls' = [calls EXCEPT ![w] = [c EXCEPT !.pc = "done", !.result = "ok"]]
       /\ UNCHANGED <<clock, deliveries, last>>

\* run_write_query: time.sleep(0.1 * (2 ** attempt)), in milliseconds
Backoff(attempt) == BackoffBaseMs * 2^attempt

\* a loop body of run_write_query that retries on every error
run_write_attempt_any(c, outcome) ==
    IF outcome = "ok" THEN [c EXCEPT !.result = "ok"]
    ELSE IF c.idx < max_retries - 1
    THEN [c EXCEPT !.errors = Append(@, outcome), !.idx = @ + 1,
                   !.waits = Append(@, Backoff(c.idx))]
    ELSE [c EXCEPT !.errors = Append(@, outcome), !.result = "raised"]

\* run_write_query: one pass of the loop body, attempt = c.idx; the session.run
\* returns, raises TransientError or raises another error
run_write_attempt(c, outcome) ==
    IF outcome = "ok" THEN [c EXCEPT !.result = "ok"]
    ELSE IF outcome = "TransientError" /\ c.idx < max_retries - 1
    THEN [c EXCEPT !.errors = Append(@, outcome), !.idx = @ + 1,
                   !.waits = Append(@, Backoff(c.idx))]
    ELSE [c EXCEPT !.errors = Append(@, outcome), !.result = "raised"]

\* track-event.py main with IJOKA_HOOK_TYPE = PostToolUse is entered for a
\* successful Edit: handle_post_tool_use begins with get_active_feature
BeginPostToolUse(w, sid, tool_use_id) ==
    /\ calls[w].pc = "idle" \/ calls[w].result # "none"
    /\ calls' = [calls EXCEPT ![w] =
                    [IdleCall EXCEPT !.op = "PostToolUse", !.pc = "get_active_feature",
                                     !.sid = sid, !.event = ToolEvent(tool_use_id)]]
    /\ deliveries' = deliveries + 1
    /\ UnchangedStore
    /\ UNCHANGED <<clock, last>>

\* handle_post_tool_use: get_active_feature through run_query, which has no
\* retry; an error of the store leaves main as an exception
HookGetActiveFeature(w, outcome) ==
    LET c == calls[w]
    IN /\ c.op = "PostToolUse" /\ c.pc = "get_active_feature" /\ c.result = "none"
       /\ \E af \in get_active_feature(Store) :
             calls' = [calls EXCEPT ![w] =
                          IF outcome = "ok"
                          THEN [c EXCEPT !.f = af, !.pc = "insert_event"]
                          ELSE [c EXCEPT !.errors = <<outcome>>, !.result = "raised"]]
       /\ UnchangedStore
       /\ UNCHANGED <<clock, deliveries, last>>

\* handle_post_tool_use: insert_event, update_session_activity and the
\* increment_work_count of maybe_auto_complete, each through run_write_query;
\* the exception of a failed write leaves main, otherwise main prints the
\* response
HookWriteAttempt(w, outcome) ==
    LET c == calls[w]
        r == run_write_attempt(c, outcome)
        G == IF c.pc = "insert_event"
             THEN insert_event_id(Store, c.event, "ToolCall", c.sid, "Edit", "plain",
                                  c.f, TRUE, clock)
             ELSE IF c.pc = "update_session_activity"
             THEN update_session_activity(Store, c.sid, clock)
             ELSE increment_work_count(Store, c.f)
        next == [r EXCEPT !.result = "none", !.idx = 0, !.errors = <<>>,
                          !.waits = <<>>]
    IN /\ c.op = "PostToolUse" /\ c.result = "none"
       /\ c.pc \in {"insert_event", "update_session_activity", "increment_work_count"}
       /\ IF r.result = "ok" THEN Commit(G) ELSE UnchangedStore
       /\ calls' = [calls EXCEPT ![w] =
                       IF r.result # "ok" THEN r
                       ELSE IF c.pc = "insert_event"
                       THEN [next EXCEPT !.pc = "update_session_activity"]
                       ELSE IF c.pc = "update_session_activity" /\ c.f # NoFeature
                       THEN [next EXCEPT !.pc = "increment_work_count"]
                       ELSE [next EXCEPT !.pc = "done", !.result = "response"]]
       /\ UNCHANGED <<clock, deliveries, last>>

\* Discover and archival beside the hooks of one session
NextDiscover ==
    \/ \E s \in IngestSessions :
          deliveries < MaxDiscoverDeliveries /\ RoomForSessionWork /\ SessionStart(s)
    \/ \E s \in IngestSessions, t \in {"Edit", MetaTool} :
          /\ deliveries < MaxDiscoverDeliveries
          /\ is_mcp_meta_tool(t) => RoomForSessionWork
          /\ PostToolUse(s, t, "plain", "t1", FALSE)
    \/ \E s \in IngestSessions :
          deliveries < MaxDiscoverDeliveries /\ UserPromptSubmit(s, "meta")
    \/ \E mc \in BOOLEAN :
          Len(features) < MaxFeatures /\ DiscoverFeature("parser", DefaultPriority, mc)
    \/ \E mc \in BOOLEAN :
          Len(features) < MaxFeatures /\ ApiDiscoverFeature("parser", DefaultPriority, mc)
    \/ \E f \in FeatureIds(Store) : ArchiveFeature(f)

SpecDiscover == Init /\ [][NextDiscover]_vars

\* Events and StatusEvents under delivery and re-delivery, re-attribution,
\* completion and archival
NextAppend ==
    \/ \E ip \in BOOLEAN :
          Len(features) < MaxFeatures /\ CreateFeature("parser", DefaultPriority, ip)
    \/ \E s \in IngestSessions :
          /\ deliveries < MaxAppendDeliveries /\ RoomForSessionWork
          /\ PostToolUse(s, MetaTool, "plain", "t1", FALSE)
    \/ \E s \in IngestSessions, u \in ToolUseIds, f \in FeatureIds(Store) :
          deliveries < MaxAppendDeliveries /\ InsertEvent(s, u, f)
    \/ \E mc \in BOOLEAN :
          Len(features) < MaxFeatures /\ DiscoverFeature("parser", DefaultPriority, mc)
    \/ \E f \in FeatureIds(Store) : CompleteFeature(f)
    \/ \E f \in FeatureIds(Store) : ArchiveFeature(f)

SpecAppend == Init /\ [][NextAppend]_vars

\* the plan of a Feature: TodoWrite syncs from the hook, set_plan and checkpoint
\* from the API
NextPlan ==
    \/ /\ Len(features) < MaxClaimFeatures
       /\ CreateFeature("parser", DefaultPriority, TRUE)
    \/ \E s \in IngestSessions, td \in TodoLists :
          deliveries < MaxPlanCalls /\ TodoWrite(s, td)
    \/ \E f \in FeatureIds(Store), plan \in Plans :
          deliveries < MaxPlanCalls /\ SetPlan(f, plan)
    \/ \E f \in FeatureIds(Store), sc \in StepCompletedInputs :
          deliveries < MaxPlanCalls /\ Checkpoint(f, sc)

SpecPlan == Init /\ [][NextPlan]_vars

\* the plan of a Feature when a TodoWrite may carry two todos in_progress
ParallelTodos == <<Todo("parse input", "in_progress"), Todo("run tests", "in_progress")>>
NextTodos ==
    \/ /\ Len(features) < MaxClaimFeatures
       /\ CreateFeature("parser", DefaultPriority, TRUE)
    \/ \E s \in IngestSessions, td \in TodoLists \cup {ParallelTodos} :
          deliveries < MaxPlanCalls /\ TodoWrite(s, td)
    \/ \E f \in FeatureIds(Store), plan \in Plans :
          deliveries < MaxPlanCalls /\ SetPlan(f, plan)
    \/ \E f \in FeatureIds(Store), sc \in StepCompletedInputs :
          deliveries < MaxPlanCalls /\ Checkpoint(f, sc)

SpecTodos == Init /\ [][NextTodos]_vars

\* checkpoints with a step_completed, a current_activity, both or neither,
\* on the plans that TodoWrite and set_plan leave
NextDrift ==
    \/ /\ Len(features) < MaxClaimFeatures
       /\ CreateFeature("parser", DefaultPriority, TRUE)
    \/ \E s \in IngestSessions, td \in TodoLists :
          deliveries < MaxDriftCalls /\ TodoWrite(s, td)
    \/ \E f \in FeatureIds(Store), plan \in Plans :
          deliveries < MaxDriftCalls /\ SetPlan(f, plan)
    \/ \E f \in FeatureIds(Store), sc \in StepCompletedInputs \cup {Null},
          ca \in CurrentActivities \cup {Null} :
          deliveries < MaxDriftCalls /\ CheckpointWarnings(f, sc, ca)

SpecDrift == Init /\ [][NextDrift]_vars

\* the Feature hierarchy: create_feature with or without a parent,
\* link_to_parent and unlink_from_parent, one call at a time
NextHierarchy ==
    \/ /\ Len(features) < MaxHierarchyFeatures
       /\ CreateFeature("parser", DefaultPriority, FALSE)
    \/ \E p \in FeatureIds(Store) :
          /\ Len(features) < MaxHierarchyFeatures
          /\ CreateChildFeature("parser", DefaultPriority, p)
    \/ \E f \in FeatureIds(Store), p \in FeatureIds(Store) : LinkToParent(f, p)
    \/ \E f \in FeatureIds(Store) : UnlinkFromParent(f)

SpecHierarchy == Init /\ [][NextHierarchy]_vars

\* link_to_parent query by query, two clients
NextHierarchyConc ==
    \/ /\ Len(features) < MaxFeatures
       /\ CreateFeature("parser", DefaultPriority, FALSE)
    \/ \E p \in FeatureIds(Store) :
          /\ Len(features) < MaxFeatures
          /\ CreateChildFeature("parser", DefaultPriority, p)
    \/ \E w \in Workers, f \in FeatureIds(Store), p \in FeatureIds(Store) :
          deliveries < MaxCalls /\ BeginLinkToParent(w, f, p)
    \/ \E w \in Workers : LinkGetAncestors(w)
    \/ \E w \in Workers : LinkWrite(w)
    \/ \E f \in FeatureIds(Store) : UnlinkFromParent(f)

SpecHierarchyConc == Init /\ [][NextHierarchyConc]_vars

\* Features created, blocked, completed and started by the client
NextBlocking ==
    \/ \E x \in FeatureInputs :
          /\ Len(features) < MaxBlockingFeatures
          /\ CreateFeature(x.description, x.priority, FALSE)
    \/ \E f \in FeatureIds(Store), blocker \in FeatureIds(Store) \cup {NoFeature} :
          f # blocker /\ BlockFeature(f, blocker)
    \/ \E f \in FeatureIds(Store) : CompleteFeature(f)
    \/ StartNextFeature("cli")

SpecBlocking == Init /\ [][NextBlocking]_vars

\* successful and failed Edits of one session beside a Feature that completes
\* on its work count
NextAutoComplete ==
    \/ /\ Len(features) < MaxFeatures
       /\ CreateCriteriaFeature("parser", DefaultPriority, "work_count")
    \/ \E x \in FeatureInputs :
          /\ Len(features) < MaxFeatures
          /\ CreateFeature(x.description, x.priority, FALSE)
    \/ \E u \in {"t1", "t2", "t3"}, err \in BOOLEAN :
          /\ deliveries < MaxAutoDeliveries
          /\ PostToolUse(1, "Edit", "plain", u, err)

SpecAutoComplete == Init /\ [][NextAutoComplete]_vars

\* successful and failed Edits and Bash calls of one session beside Features
\* of every kind of completion criteria
CriteriaTypes == {"absent", "manual", "work_count", "any_success"}
CriteriaCalls == {[tool_name |-> "Edit", tool_use_id |-> "t1", is_error |-> FALSE],
                  [tool_name |-> "Bash", tool_use_id |-> "t2", is_error |-> FALSE],
                  [tool_name |-> "Edit", tool_use_id |-> "t3", is_error |-> TRUE]}
NextCriteria ==
    \/ \E c \in CriteriaTypes :
          /\ Len(features) < MaxFeatures
          /\ CreateCriteriaFeature("parser", DefaultPriority, c)
    \/ \E c \in CriteriaCalls :
          /\ deliveries < MaxCriteriaDeliveries
          /\ PostToolUse(1, c.tool_name, "plain", c.tool_use_id, c.is_error)

SpecCriteria == Init /\ [][NextCriteria]_vars

\* the PostToolUse hook of two sessions, store operation by store operation,
\* against a store whose operations can fail
NextGateway ==
    \/ /\ Len(features) < MaxClaimFeatures
       /\ CreateFeature("parser", DefaultPriority, TRUE)
    \/ \E w \in Workers :
          /\ deliveries < MaxHookCalls
          /\ BeginPostToolUse(w, IF w = "w1" THEN 1 ELSE 2, IF w = "w1" THEN "t1" ELSE "t2")
    \/ \E w \in Workers, outcome \in {"ok", "ServiceUnavailable"} :
          HookGetActiveFeature(w, outcome)
    \/ \E w \in Workers, outcome \in {"ok", "TransientError", "ServiceUnavailable"} :
          HookWriteAttempt(w, outcome)

SpecGateway == Init /\ [][NextGateway]_vars

\* the PostToolUse hook for diagnostic and other tool calls, redelivered or not
NextDiagnostic ==
    \/ \E ip \in BOOLEAN :
          /\ Cardinality({f \in FeatureIds(Store) : ~features[f].is_session_work})
                < MaxClaimFeatures
          /\ CreateFeature("parser", DefaultPriority, ip)
    \/ \E s \in SessionIds, u \in {"t1", "t2", "t3", "t4"}, err \in BOOLEAN :
          /\ deliveries < MaxDiagnosticDeliveries
          /\ PostToolUse(s, ToolCallOf[u].tool_name, ToolCallOf[u].input, u, err)

SpecDiagnostic == Init /\ [][NextDiagnostic]_vars

\* the hooks of a session delivered from the root of the repository and from
\* a directory below it
NextProject ==
    \/ /\ Cardinality({f \in FeatureIds(Store) : ~features[f].is_session_work})
             < MaxClaimFeatures
       /\ CreateFeature("parser", DefaultPriority, TRUE)
    \/ \E s \in SessionIds, cwd \in Cwds :
          deliveries < MaxProjectDeliveries /\ SessionStartAt(s, cwd)
    \/ \E s \in SessionIds, cwd \in Cwds, h \in {"Stop", "PostToolUse"}, u \in {"t2", "t5"} :
          deliveries < MaxProjectDeliveries /\ TrackEventAt(h, s, cwd, u)

SpecProject == Init /\ [][NextProject]_vars

\* set_primary_focus query by query, two clients
NextPrimary ==
    \/ \E ip \in BOOLEAN :
          /\ Len(features) < MaxFeatures
          /\ CreateFeature("parser", DefaultPriority, ip)
    \/ \E w \in Workers, f \in FeatureIds(Store) :
          deliveries < MaxCalls /\ BeginSetPrimaryFocus(w, f)
    \/ \E w \in Workers : ClearPrimary(w)
    \/ \E w \in Workers : SetPrimary(w)

SpecPrimary == Init /\ [][NextPrimary]_vars

\* set_plan query by query, two clients, with get_plan reads between the queries
NextPlanConc ==
    \/ /\ Len(features) < MaxClaimFeatures
       /\ CreateFeature("parser", DefaultPriority, TRUE)
    \/ \E w \in Workers, f \in FeatureIds(Store), plan \in Plans :
          deliveries < MaxPlanCalls /\ BeginSetPlan(w, f, plan)
    \/ \E w \in Workers : SetPlanDelete(w)
    \/ \E w \in Workers : SetPlanCreate(w)
    \/ \E w \in Workers, f \in FeatureIds(Store) :
          deliveries < MaxPlanCalls /\ GetPlan(w, f)

SpecPlanConc == Init /\ [][NextPlanConc]_vars

\* ------------------------------------------------------------------- claims
\* the holder of f's claim had activity within the last StaleMinutes minutes: its
\* Session node's last_activity, or an Event of the session, is that recent
HolderActive(f) ==
    LET h == features[f].claiming_session_id
    IN /\ h \in SessionIds
       /\ \/ /\ sessions[h].exists
             /\ Minutes(clock) - Minutes(sessions[h].last_activity) < StaleMinutes
          \/ \E e \in DOMAIN events :
                /\ events[e].session_id = h
                /\ Minutes(clock) - Minutes(events[e].timestamp) < StaleMinutes

\* the status and the claim triple of a Feature
ClaimState(feature) ==
    <<feature.status, feature.claiming_session_id, feature.claiming_agent,
      feature.claimed_at>>

\* C1: when Feature f's claim is held by a session that had activity within the
\* last 30 minutes, start_feature(f) by a different session with
\* force_override = false returns the conflict result and leaves f's status,
\* claiming_session_id, claiming_agent and claimed_at unchanged.
C1_ConflictLeavesFeature ==
    [][\A f \in FeatureIds(Store), c \in Callers :
          ( /\ features[f].claiming_session_id \notin {NoSession, c.sid}
            /\ HolderActive(f)
            /\ StartFeature(f, c.agent, c.sid, FALSE) )
          => /\ last'.result = "conflict"
             /\ ClaimState(features'[f]) = ClaimState(features[f])]_vars

\* a start_feature without force has just been refused, and the holder, another
\* session, is still active and still holds the claim
C1_Witness ==
    /\ last.op = "start_feature"
    /\ last.result = "conflict"
    /\ ~last.force
    /\ last.existing \notin {NoSession, last.sid}
    /\ \E f \in FeatureIds(Store) :
          /\ features[f].claiming_session_id = last.existing
          /\ HolderActive(f)

\* C7: when Feature f's claim is held by a session with no activity within the
\* last 30 minutes, start_feature(f) by a different session with
\* force_override = false succeeds and f.claiming_session_id becomes the caller.
C7_StaleClaimTakenOver ==
    [][\A f \in FeatureIds(Store), c \in Callers :
          ( /\ features[f].claiming_session_id \notin {NoSession, c.sid}
            /\ ~HolderActive(f)
            /\ StartFeature(f, c.agent, c.sid, FALSE) )
          => /\ last'.result = "ok"
             /\ features'[f].claiming_session_id = c.sid]_vars

\* a start_feature without force has just succeeded against a holder whose
\* Session node shows a last activity more than 30 minutes old
C7_Witness ==
    /\ last.op = "start_feature"
    /\ last.result = "ok"
    /\ ~last.force
    /\ last.existing \in SessionIds \ {last.sid}
    /\ sessions[last.existing].exists
    /\ Minutes(clock) - Minutes(sessions[last.existing].last_activity) > StaleMinutes
    /\ \E f \in FeatureIds(Store) :
          /\ features[f].claiming_session_id = last.sid
          /\ features[f].claimed_at = clock

\* the to_status of the most recent StatusEvent of Feature f, pending when it has none
LastToStatus(f) ==
    LET idx == {i \in 1..Len(status_events) : status_events[i].feature = f}
    IN IF idx = {} THEN "pending"
       ELSE status_events[CHOOSE i \in idx : \A j \in idx : j <= i].to_status

\* C3: every Feature's status equals the to_status of the most recent StatusEvent
\* attached to it, or pending if it has no StatusEvent.
C3_StatusFollowsStatusEvents ==
    \A f \in FeatureIds(Store) : features[f].status = LastToStatus(f)

\* C8: each Feature's claim triple is all-or-nothing: claiming_session_id set
\* implies claiming_agent and claimed_at set, otherwise all three are null.
C8_ClaimTripleAllOrNothing ==
    \A f \in FeatureIds(Store) :
        IF features[f].claiming_session_id # NoSession
        THEN features[f].claiming_agent # Null /\ features[f].claimed_at # NoTime
        ELSE features[f].claiming_agent = Null /\ features[f].claimed_at = NoTime

\* C9: POST /features/{id}/start on a Feature whose claim is held by another,
\* still active session answers 400 and leaves the claim with its holder.
C9_ApiRefusesActiveClaim ==
    [][\A f \in FeatureIds(Store) :
          ( /\ features[f].claiming_session_id # NoSession
            /\ HolderActive(f)
            /\ ApiStartFeature(f, ApiAgent) )
          => /\ last'.result = "400"
             /\ features'[f].claiming_session_id = features[f].claiming_session_id]_vars

\* C4: a second delivery of a PostToolUse hook event whose Event (same tool_use_id,
\* tool, input, session and outcome) is already in the graph adds no node and no
\* edge (no second LINKED_TO edge from the Event to its Feature) and leaves every
\* Feature as it was.
C4_RedeliveryAddsNothing ==
    [][\A s \in IngestSessions, t \in ToolCalls, u \in ToolUseIds, err \in BOOLEAN :
          ( /\ ToolEvent(u) \in DOMAIN events
            /\ events[ToolEvent(u)].session_id = s
            /\ events[ToolEvent(u)].tool_name = t.tool_name
            /\ events[ToolEvent(u)].payload = t.input
            /\ events[ToolEvent(u)].success = ~err
            /\ PostToolUse(s, t.tool_name, t.input, u, err) )
          => /\ features' = features
             /\ events' = events
             /\ linked' = linked
             /\ triggered' = triggered
             /\ status_events' = status_events]_vars

\* C5: in every step, the work_count of each Feature grows by exactly the number
\* of LINKED_TO edges the Feature receives in that step (a new Feature starts
\* from no edge and work_count 0).
C5_WorkCountCountsLinks ==
    [][\A f \in 1..Len(features') :
          LET wc == IF f \in FeatureIds(Store) THEN features[f].work_count ELSE 0
              edges == IF f \in FeatureIds(Store) THEN EdgesInto(Store, f) ELSE 0
          IN features'[f].work_count - wc
                = EdgesInto([linked |-> linked'], f) - edges]_vars

\* C10: no step of the ingestion pipeline (a hook event, its auto-transition or
\* auto-completion, the activation of the next Feature, prompt classification)
\* changes the status of a Session-Work Feature.
C10_SessionWorkStatusFixed ==
    [][\A f \in FeatureIds(Store) :
          features[f].is_session_work => features'[f].status = features[f].status]_vars

\* C2: of two start_feature calls on the same Feature by two different sessions,
\* both active when they called and both without force_override, at most one
\* has succeeded.
C2_AtMostOneStartSucceeds ==
    \A w1, w2 \in Workers :
        ( /\ w1 # w2
          /\ calls[w1].op = "start_feature" /\ calls[w2].op = "start_feature"
          /\ calls[w1].f = calls[w2].f
          /\ calls[w1].sid # calls[w2].sid
          /\ calls[w1].caller_active /\ calls[w2].caller_active
          /\ calls[w1].result = "ok" )
        => calls[w2].result # "ok"

\* C6: the Project has at most one Feature with is_session_work = true.
C6_OneSessionWorkFeature ==
    Cardinality(SessionWorkByFlag(Store)) <= 1

\* the StatusEvents of Feature f written by the auto-transition
AutoStatusEvents(f) ==
    {i \in 1..Len(status_events) :
        /\ status_events[i].feature = f
        /\ status_events[i].by[1] = "auto:first_activity"}

\* C11: over any sequence or interleaving of event ingestions a Feature has at
\* most one StatusEvent by "auto:first_activity:<event-id>".
C11_AutoTransitionOnce ==
    \A f \in FeatureIds(Store) : Cardinality(AutoStatusEvents(f)) <= 1

\* C12: a work-tool PostToolUse event (not a diagnostic one) delivered while no
\* Feature is in_progress, so that nothing attributes it to a user Feature, is
\* linked to the Project's Session-Work Feature, which exists afterwards.
C12_UnattributedWorkGoesToSessionWork ==
    [][\A s \in IngestSessions, t \in ToolCalls, u \in ToolUseIds, err \in BOOLEAN :
          ( /\ t.tool_name \in WorkToolNames
            /\ t.input = "plain"
            /\ get_active_feature(Store) = {NoFeature}
            /\ PostToolUse(s, t.tool_name, t.input, u, err) )
          => \E f \in 1..Len(features') :
                /\ features'[f].is_session_work
                /\ <<ToolEvent(u), f>> \in DOMAIN linked']_vars

\* ------------------------------------------------- attribution scoring
\* score_attribution's weights, in hundredths
PatternWeight == 40
KeywordWeight == 30
TypePriorityFeature == 60
TypeWeight == 20
PrimaryBonus == 10
AttributionThreshold == 15

\* the words of the tool input that score_attribution's extract_keywords keeps:
\* an input mentions a Feature only when it is that Feature's description
ActivityKeywords(input) ==
    IF input \in {x.description : x \in FeatureInputs} THEN {input} ELSE {}

\* the score of one Feature in score_attribution's loop, in hundredths:
\* create_feature stores no file_patterns and the type "feature"
AttributionScore(G, f, input) ==
    LET fk == FeatureKeywords(G.features[f].description)
        ak == ActivityKeywords(input)
        overlap == Cardinality(fk \cap ak)
        total == IF Cardinality(fk) > 1 THEN Cardinality(fk) ELSE 1
    IN (IF fk # {} /\ ak # {} THEN (overlap * KeywordWeight) \div total ELSE 0)
       + (TypePriorityFeature * TypeWeight) \div 100
       + (IF G.features[f].is_primary THEN PrimaryBonus ELSE 0)

RECURSIVE BestAttribution(_, _, _, _, _)
BestAttribution(G, order, input, best, bestScore) ==
    IF order = <<>> THEN [feature |-> best, score |-> bestScore]
    ELSE LET sc == AttributionScore(G, Head(order), input)
         IN IF sc > bestScore
            THEN BestAttribution(G, Tail(order), input, Head(order), sc)
            ELSE BestAttribution(G, Tail(order), input, best, bestScore)

\* score_attribution(features, tool_name, tool_input): the Feature returned
score_attribution(G, order, input) ==
    IF order = <<>> THEN NoFeature
    ELSE IF Len(order) = 1 THEN order[1]
    ELSE LET b == BestAttribution(G, order, input, NoFeature, 0)
         IN IF b.score < AttributionThreshold THEN NoFeature ELSE b.feature

InProgress(G) == {f \in FeatureIds(G) : G.features[f].status = "in_progress"}

\* C13: with several Features in_progress, a work-tool PostToolUse links its
\* Event to the Feature of the highest attribution score, and adds no
\* LINKED_TO edge when the best score is under the threshold.
C13_HighestScoreAttributed ==
    [][\A s \in IngestSessions, t \in ToolCalls, u \in ToolUseIds, err \in BOOLEAN :
          ( /\ t.tool_name \in WorkToolNames /\ t.input = "plain"
            /\ Cardinality(InProgress(Store)) >= 2
            /\ PostToolUse(s, t.tool_name, t.input, u, err) )
          => LET best == score_attribution(Store,
                             SortFeatures(Store, InProgress(Store)), t.input)
             IN IF best = NoFeature THEN linked' = linked
                ELSE <<ToolEvent(u), best>> \in DOMAIN linked']_vars

\* the <<from_status, to_status>> pairs of Feature f's StatusEvents, oldest first
StatusTransitions(se, f) ==
    [i \in 1..Len(SelectSeq(se, LAMBDA x : x.feature = f)) |->
          <<SelectSeq(se, LAMBDA x : x.feature = f)[i].from_status,
            SelectSeq(se, LAMBDA x : x.feature = f)[i].to_status>>]

\* C14: start_feature on a pending Feature records the StatusEvent
\* pending -> in_progress, and complete_feature on the Feature so started
\* records in_progress -> complete as its second StatusEvent.
C14_StartCompleteTwoStatusEvents ==
    [][\A f \in FeatureIds(Store) :
          /\ \A c \in Callers, force \in BOOLEAN :
                ( /\ features[f].status = "pending"
                  /\ StartFeature(f, c.agent, c.sid, force)
                  /\ last'.result = "ok" )
                => StatusTransitions(status_events', f) = <<<<"pending", "in_progress">>>>
          /\ ( /\ features[f].status = "in_progress"
               /\ features[f].claimed_at # NoTime
               /\ CompleteFeature(f) )
             => /\ StatusTransitions(status_events', f) # <<>>
                /\ StatusTransitions(status_events', f)[
                       Len(StatusTransitions(status_events', f))]
                   = <<"in_progress", "complete">>]_vars

\* C15: POST /features/discover, called when exactly one Edit Event is linked
\* to Session Work inside the lookback window, leaves that Event with its
\* Session Work edge and an edge to the new Feature, whose work_count is 1.
C15_ApiDiscoverReattributes ==
    [][\A mc \in BOOLEAN, x \in DOMAIN linked :
          ( /\ ReattributionRows(Store, clock) = {x}
            /\ linked[x] = 1
            /\ events[x[1]].tool_name = "Edit"
            /\ ApiDiscoverFeature("parser", DefaultPriority, mc) )
          => /\ x \in DOMAIN linked'
             /\ <<x[1], Len(features')>> \in DOMAIN linked'
             /\ features'[Len(features')].work_count = 1]_vars

\* C16 as stated: no step removes or redirects a LINKED_TO edge of an Event.
C16_EdgesNeverRemoved ==
    [][\A x \in DOMAIN linked : x \in DOMAIN linked' /\ linked'[x] >= linked[x]]_vars

\* C16: no step removes or redirects a LINKED_TO edge of an Event whose Feature
\* still exists after the step: Discover, re-attribution and ingestion only
\* add edges, and only archiving a Feature removes the edges into it.
C16_EdgesRemovedOnlyByArchive ==
    [][\A x \in DOMAIN linked :
          features'[x[2]].status # "deleted"
          => x \in DOMAIN linked' /\ linked'[x] >= linked[x]]_vars

\* an Event first linked to Session Work that a Discover re-attributed: it
\* holds both edges
C16_Witness ==
    \E x \in DOMAIN linked, y \in DOMAIN linked :
        /\ x[1] = y[1] /\ x[2] # y[2]
        /\ features[x[2]].is_session_work
        /\ ~features[y[2]].is_session_work
        /\ features[y[2]].status # "deleted"

\* C17: the step_order values of the Steps of every Feature are unique and are
\* exactly 0..N-1, N being the number of its Steps.
C17_StepOrderPermutation ==
    \A f \in FeatureIds(Store) :
        {steps[s].step_order : s \in StepIds(Store, f)}
            = 0..(Cardinality(StepIds(Store, f)) - 1)

\* C18: a completed Step never becomes pending or skipped again, and a Step
\* becomes skipped only from pending (both follow from the only moves being
\* pending -> in_progress -> completed and pending -> skipped).
C18_StepStatusMovesForward ==
    [][\A s \in 1..Len(steps) :
          (steps[s].feature # NoFeature /\ steps'[s].feature = steps[s].feature)
          => /\ steps[s].status = "completed"
                => steps'[s].status \notin {"pending", "skipped"}
             /\ steps'[s].status = "skipped"
                => steps[s].status \in {"pending", "skipped"}]_vars

\* C19: a checkpoint whose step_completed is contained in the description of the
\* active Step leaves that Step completed and the next pending Step, if there
\* is one, in_progress.
C19_CheckpointAdvancesPlan ==
    [][\A f \in FeatureIds(Store), sc \in StepCompletedInputs :
       \A a \in StepIds(Store, f) :
          ( /\ client_get_active_step(Store, f) = {a}
            /\ Contains(steps[a].description, sc)
            /\ Checkpoint(f, sc) )
          => /\ steps'[a].status = "completed"
             /\ \/ NextPending(Store, f) = {NoStep}
                \/ \E np \in NextPending(Store, f) :
                      steps'[np].status = "in_progress"]_vars

\* the active Step as specified: the in_progress Step if there is one, else
\* the pending Step of lowest step_order, else none
SpecifiedActiveStep(f) ==
    LET ip == {s \in StepIds(Store, f) : steps[s].status = "in_progress"}
        pe == {s \in StepIds(Store, f) : steps[s].status = "pending"}
    IN IF ip # {} THEN ip
       ELSE IF pe # {} THEN LowestOrder(Store, pe)
       ELSE {NoStep}

\* C20: both get_active_step implementations return the in_progress Step if
\* there is one, else the pending Step of lowest step_order, and none only when
\* the Feature has neither.
C20_ActiveStepSelection ==
    \A f \in FeatureIds(Store) :
        /\ get_active_step(Store, f) \subseteq SpecifiedActiveStep(f)
        /\ client_get_active_step(Store, f) \subseteq SpecifiedActiveStep(f)

\* the plan S as get_plan is specified to return it after set_plan(f, S)
PlanOf(plan) ==
    [i \in 1..Len(plan) |-> [description |-> plan[i], status |-> "pending",
                             step_order |-> i - 1]]

\* C21: right after set_plan(f, S), get_plan(f) returns exactly the steps of S
\* in the given order, all pending, with step_order 0..|S|-1, whatever Steps f
\* had before.
C21_SetPlanThenGetPlan ==
    [][\A f \in FeatureIds(Store), plan \in Plans :
          SetPlan(f, plan) => get_plan(Store', f) = {PlanOf(plan)}]_vars

\* set_plan has replaced an earlier plan: deleted Steps remain beside a Feature
\* whose Steps are all pending
C21_Witness ==
    /\ \E s \in 1..Len(steps) : steps[s] = DeletedStep
    /\ \E f \in FeatureIds(Store) :
          /\ StepIds(Store, f) # {}
          /\ \A s \in StepIds(Store, f) : steps[s].status = "pending"
          /\ \E plan \in Plans : get_plan(Store, f) = {PlanOf(plan)}

\* the complete plans get_plan can show when set_plan is atomic
CompletePlans == {PlanOf(plan) : plan \in Plans}
SetPlanDone(c, f) == \E w \in Workers :
    c[w].op = "set_plan" /\ c[w].f = f /\ c[w].pc = "done"
SetPlanInFlight(c, f) == \E w \in Workers :
    c[w].op = "set_plan" /\ c[w].f = f /\ c[w].pc # "done"

\* C22: set_plan replaces the Steps atomically: a get_plan sees one of the
\* complete plans (or no Step when no set_plan on the Feature has returned),
\* never a partial plan, and once the set_plan calls on a Feature have returned
\* the Feature holds exactly one of the plans, never a mixture.
C22_SetPlanAtomic ==
    [][\A f \in FeatureIds(Store) :
          /\ \A w \in Workers :
                GetPlan(w, f)
                => \/ calls'[w].steps_seen \in CompletePlans
                   \/ calls'[w].steps_seen = <<>> /\ ~SetPlanDone(calls, f)
          /\ (SetPlanDone(calls', f) /\ ~SetPlanInFlight(calls', f))
             => get_plan(Store', f) \subseteq CompletePlans]_vars

\* the Features above f in the hierarchy
AncestorsOf(f) == ReachUp(Store, Parents(Store, f))

\* C23 as stated: link_to_parent(a, b) where b is an ancestor of a raises and
\* leaves the graph unchanged.
C23_AncestorParentRefused ==
    [][\A a \in FeatureIds(Store), b \in FeatureIds(Store) :
          (b \in AncestorsOf(a) /\ LinkToParent(a, b))
          => /\ last'.result \in {"own_parent", "circular"}
             /\ child_of' = child_of /\ features' = features]_vars

\* C23: link_to_parent(a, b) where a is b or an ancestor of b (the link would
\* close a cycle) raises ValueError and leaves the graph unchanged.
C23_CycleRefused ==
    [][\A a \in FeatureIds(Store), b \in FeatureIds(Store) :
          ((a = b \/ a \in AncestorsOf(b)) /\ LinkToParent(a, b))
          => /\ last'.result \in {"own_parent", "circular"}
             /\ child_of' = child_of /\ features' = features
             /\ steps' = steps /\ linked' = linked]_vars

\* a link_to_parent under a descendant was refused, the hierarchy still in place
C23_Witness ==
    /\ last.op = "link_to_parent"
    /\ last.result = "circular"
    /\ \E x \in child_of, y \in child_of : x[2] = y[1]

\* C24: CHILD_OF is acyclic: no Feature is its own ancestor.
C24_ChildOfAcyclic ==
    \A f \in FeatureIds(Store) : f \notin AncestorsOf(f)

\* C25: at most one Feature of the Project has is_primary = true.
C25_AtMostOnePrimary ==
    Cardinality({f \in FeatureIds(Store) : features[f].is_primary}) <= 1

\* the Features that the specification lets start_feature pick: pending, with
\* every blocking dependency complete
Eligible ==
    {f \in FeatureIds(Store) :
        /\ features[f].status = "pending"
        /\ \A x \in depends_on : x[1] = f => features[x[2]].status = "complete"}

\* the Features whose status the step changes to in_progress
Started == {f \in FeatureIds(Store) : features[f].status # "in_progress"
                                      /\ features'[f].status = "in_progress"}

FirstPending ==
    FirstOrdered(Store, {g \in FeatureIds(Store) : features[g].status = "pending"})

\* C27: when the successful Edit that brings the work count of an active Feature
\* with criteria {type: work_count, count: 3} to three is handled, the Feature is
\* complete, a StatusEvent in_progress -> complete records it, and the pending
\* Feature of highest priority is in_progress.
C27_AutoCompleteByWorkCount ==
    [][\A f \in FeatureIds(Store) :
          ( /\ features[f].completionCriteria = "work_count"
            /\ features[f].status = "in_progress"
            /\ features[f].work_count < DefaultWorkCountThreshold
            /\ features'[f].work_count >= DefaultWorkCountThreshold )
          => /\ features'[f].status = "complete"
             /\ \E i \in 1..Len(status_events') :
                   /\ status_events'[i].feature = f
                   /\ status_events'[i].from_status = "in_progress"
                   /\ status_events'[i].to_status = "complete"
             /\ FirstPending # NoFeature
                   => features'[FirstPending].status = "in_progress"]_vars

\* C28: a hook whose handling has ended has ended normally, with a response
\* printed, whatever store operation failed on the way.
C28_HookNeverRaises ==
    \A w \in Workers :
        (calls[w].op = "PostToolUse" /\ calls[w].result # "none")
        => calls[w].result \in {"response", "{}"}

\* the write queries of the hooks that are being attempted or have raised
WriteCalls ==
    {w \in Workers :
        /\ calls[w].op = "PostToolUse"
        /\ calls[w].pc \in {"insert_event", "update_session_activity",
                            "increment_work_count"}}

TransientFailures(c) == {i \in 1..Len(c.errors) : c.errors[i] = "TransientError"}

\* what C29 says of attempts and of the errors surfaced: at most 3 attempts, a
\* retry only after a transient conflict, the error of the last attempt surfaced
RetryDiscipline(c) ==
    /\ Len(c.errors) <= max_retries
    /\ \A i \in 1..Len(c.errors) - 1 : c.errors[i] = "TransientError"
    /\ c.result = "none" => TransientFailures(c) = 1..Len(c.errors)
    /\ c.result = "raised" =>
          \/ c.errors[Len(c.errors)] # "TransientError"
          \/ Len(c.errors) = max_retries

DiagnosticIds == {"t1", "t3"}

\* after the step, the Event of tool call u is stored with Session s and has
\* no LINKED_TO edge
StoredUnattributed(s, u) ==
    /\ ToolEvent(u) \in DOMAIN events'
    /\ <<ToolEvent(u), s>> \in triggered'
    /\ \A x \in DOMAIN linked' : x[1] # ToolEvent(u)

\* C30: the Event of every diagnostic tool call is stored with a
\* TRIGGERED_BY edge to its Session and has no LINKED_TO edge.
C30_DiagnosticStoredUnattributed ==
    [][\A s \in SessionIds, u \in DiagnosticIds, err \in BOOLEAN :
          PostToolUse(s, ToolCallOf[u].tool_name, ToolCallOf[u].input, u, err)
          => StoredUnattributed(s, u)]_vars

\* C31: every hook event is ingested under the Project of the git root: there
\* is no Project node of another path, and no two Session nodes have the same id.
C31_OneProjectOneSessionNode ==
    /\ projects \subseteq {GitRoot}
    /\ \A i, j \in DOMAIN session_nodes :
          session_nodes[i].id = session_nodes[j].id => i = j

\* C32: on every UserPromptSubmit of a recorded Session the Feature that scores best over all the
\* Features of the Project is in_progress afterwards whenever its confidence is
\* at least 40, and it is the Session's cached active_feature_id.
C32_BestMatchActivated ==
    [][\A s \in SessionIds, p \in Prompts :
          (sessions[s].exists /\ UserPromptSubmit(s, p))
          => LET m == classify_prompt_to_feature(Store, p)
             IN (m.idx # NoFeature /\ m.confidence >= ConfidenceThreshold)
                => /\ features'[m.idx].status = "in_progress"
                   /\ sessions'[s].active_feature_id = m.idx]_vars

\* C33: a nudge is given at most once per Session: the PostToolUse hook of a
\* Session returns a nudge only if no Session node of that id has it in
\* nudges_shown, and a nudge returned is in nudges_shown afterwards.
C33_NudgeOncePerSession ==
    [][\A s \in SessionIds :
          (last'.op = "PostToolUse" /\ last'.sid = s /\ last'.result # "none"
           /\ deliveries' = deliveries + 1)
          => /\ \A i \in DOMAIN session_nodes :
                   session_nodes[i].id = s
                   => last'.result \notin session_nodes[i].nudges_shown
             /\ \E i \in DOMAIN session_nodes' :
                   /\ session_nodes'[i].id = s
                   /\ last'.result \in session_nodes'[i].nudges_shown]_vars

InProgressSteps(f) == {t \in StepIds(Store, f) : steps[t].status = "in_progress"}
Meaningful(text) == LowerSplit(text) \ common_words

\* C34 as stated: a checkpoint that carries only a current_activity sharing no
\* word beside the common ones with the description of the one Step
\* in_progress returns a drift warning and changes no Step.
C34_DriftWheneverNoSharedWord ==
    [][\A f \in FeatureIds(Store), ca \in CurrentActivities, t \in DOMAIN steps :
          (/\ CheckpointWarnings(f, Null, ca)
           /\ InProgressSteps(f) = {t}
           /\ Meaningful(ca) \cap Meaningful(steps[t].description) = {})
          => last'.result = "drift" /\ steps' = steps]_vars

\* C34, amended: a checkpoint that carries only a current_activity which has a
\* word beside the common ones, and shares none with the description of the
\* one Step in_progress, which has such a word too, returns a drift warning
\* and changes no Step.
C34_DriftWarningWithoutStepChange ==
    [][\A f \in FeatureIds(Store), ca \in CurrentActivities, t \in DOMAIN steps :
          (/\ CheckpointWarnings(f, Null, ca)
           /\ InProgressSteps(f) = {t}
           /\ Meaningful(ca) # {} /\ Meaningful(steps[t].description) # {}
           /\ Meaningful(ca) \cap Meaningful(steps[t].description) = {})
          => last'.result = "drift" /\ steps' = steps]_vars

C34_Witness ==
    /\ last.op = "checkpoint" /\ last.result = "drift"
    /\ \E f \in FeatureIds(Store) : \E t \in InProgressSteps(f) :
          /\ InProgressSteps(f) = {t}
          /\ \E u \in StepIds(Store, f) : steps[u].status = "pending"

\* C35: no PostToolUse delivery completes a Feature whose completion criteria
\* are absent or manual.
C35_ManualNeverAutoCompleted ==
    [][\A f \in FeatureIds(Store) :
          (/\ features[f].completionCriteria \in {"absent", "manual"}
           /\ features[f].status # "complete"
           /\ deliveries' = deliveries + 1)
          => features'[f].status # "complete"]_vars

\* a Feature without criteria, and one with manual criteria, has taken at
\* least three successful work events and is still in_progress
C35_Witness ==
    \E f \in FeatureIds(Store) :
       /\ features[f].completionCriteria \in {"absent", "manual"}
       /\ features[f].status = "in_progress"
       /\ features[f].work_count >= DefaultWorkCountThreshold
       /\ deliveries >= DefaultWorkCountThreshold

\* C36: Events and StatusEvents are append-only: every step keeps each Event
\* node with the properties it had, and keeps the StatusEvent nodes it found,
\* unchanged, as the first of those it leaves.
C36_EventsAppendOnly ==
    [][/\ \A e \in DOMAIN events : e \in DOMAIN events' /\ events'[e] = events[e]
       /\ Len(status_events') >= Len(status_events)
       /\ \A i \in 1..Len(status_events) : status_events'[i] = status_events[i]]_vars

\* an Event delivered twice, whose first delivery left a StatusEvent, is
\* linked to a Feature that is complete, after an archival
C36_Witness ==
    /\ \E x \in DOMAIN linked : /\ linked[x] >= 2
                                /\ features[x[2]].status = "complete"
    /\ \E f \in 1..Len(features) : features[f].status = "deleted"
    /\ status_events # <<>>

\* C37: no hook delivery (event ingestion, activation of the next Feature
\* after an auto-completion, prompt classification) moves a complete Feature
\* to another status.
C37_CompleteStaysComplete ==
    [][\A f \in FeatureIds(Store) :
          (features[f].status = "complete" /\ deliveries' = deliveries + 1)
          => features'[f].status = "complete"]_vars

\* C38: a Feature has at most one Step in_progress.
C38_AtMostOneStepInProgress ==
    \A f \in FeatureIds(Store) : Cardinality(InProgressSteps(f)) <= 1

\* C39: every PostToolUse delivery of a TodoWrite is recorded: the step leaves
\* exactly one more Event node, TRIGGERED_BY the Session of the hook, whether
\* a Feature is in_progress or not.
C39_TodoWriteRecorded ==
    [][\A s \in IngestSessions, td \in TodoLists :
          TodoWrite(s, td)
          => \E e \in DOMAIN events' :
                /\ DOMAIN events' = DOMAIN events \cup {e} /\ e \notin DOMAIN events
                /\ events'[e].tool_name = "TodoWrite"
                /\ <<e, s>> \in triggered']_vars

\* C40: the SessionEnd hook of a Session leaves every Feature as it was, the
\* status and the claim of those the Session holds included, and marks the
\* Session ended; and a start_feature by another session on a Feature that an
\* ended Session holds is refused exactly when that Session's last activity is
\* less than thirty minutes old.
C40_EndSessionKeepsClaims ==
    [][/\ \A s \in SessionIds :
             SessionEnd(s)
             => /\ features' = features
                /\ sessions[s].exists => sessions'[s].status = "ended"
       /\ \A f \in FeatureIds(Store), c \in Callers :
             LET holder == features[f].claiming_session_id
             IN (/\ StartFeature(f, c.agent, c.sid, FALSE)
                 /\ holder # NoSession /\ holder # c.sid
                 /\ sessions[holder].status = "ended")
                => (last'.result = "conflict"
                    <=> Minutes(clock) - Minutes(sessions[holder].last_activity)
                           < StaleMinutes)]_vars

\* a start_feature was refused for the claim of a Session that ended one tick
\* ago and still holds the Feature
C40_Witness ==
    /\ last.op = "start_feature" /\ last.result = "conflict"
    /\ last.existing # NoSession
    /\ sessions[last.existing].status = "ended"
    /\ clock > sessions[last.existing].last_activity
    /\ \E f \in FeatureIds(Store) :
          /\ features[f].claiming_session_id = last.existing
          /\ features[f].status = "in_progress"
====
